---- MODULE Spec2Model ----
(***************************************************************************)
(* A model of graph-ixi's cross-checker: the PoI store (write_pois, pois), *)
(* the fan-out polling round and the divergence bisection.                 *)
(***************************************************************************)
EXTENDS Integers, Sequences, FiniteSets, TLC

(***************************************************************************)
(* Bounds of the model.                                                    *)
(***************************************************************************)
MaxWrites == 2

(***************************************************************************)
(* The values the entities range over.                                     *)
(***************************************************************************)
\* Indexers are identified (equality, ordering) by their address bytes.
Indexers == {1, 2}
\* Subgraph deployments are identified by their IPFS cid.
Deployments == {1, 2}
\* BlockPointer { number, hash }.
Blocks == {[number |-> 10, hash |-> "h10"], [number |-> 11, hash |-> "h11"]}
\* Bytes32 digests.
Digests == {"aa", "bb"}
\* The tasks that call Store::write_pois.
Writers == {"w1", "w2"}

Live == "Live"
NotLive == "NotLive"
PoiLiveness == {Live, NotLive}

\* types::ProofOfIndexing, as seen through WritablePoI. The PoIs of the model:
\* indexer 1 serves deployment 1 at both blocks and has two candidate digests
\* at block 10; indexer 2 serves deployment 2 at block 10.
ProofOfIndexing ==
    {p \in [indexer : Indexers, deployment : Deployments,
            block : Blocks, poi : Digests] :
        /\ p.deployment = p.indexer
        /\ p.indexer = 2 => p.block.number = 10
        /\ p.poi = "bb" => (p.indexer = 1 /\ p.block.number = 10)}

Key(p) == <<p.indexer, p.deployment, p.block>>
Pair(p) == <<p.indexer, p.deployment>>

Range(s) == {s[n] : n \in DOMAIN s}

SeqsUpTo(S, n) == UNION {[1..m -> S] : m \in 0..n}

VARIABLES
    pois,       \* the committed rows of table pois
    clock,      \* the database clock; one tick per write call
    tx,         \* per writer: the write_pois call in flight
    ret,        \* what the store call that just returned handed to its caller
    round,      \* the polling round in progress
    bis,        \* the bisection run in progress
    job,        \* the task that writes a chunk of PoIs with retries
    reports,    \* the rows of table divergence_bisect_reports
    chan,       \* the channel cross_check_reports and its receivers
    mig         \* the processes that run the migrations at startup

vars == <<pois, clock, tx, ret, round, bis, job, reports, chan, mig>>

\* The parts of the state that belong to the other components.
aux == <<job, reports, chan, mig>>
NoJob == [pc |-> "idle"]
\* The processes that hold a Store, and the tasks of a process that wait for
\* requests.
Procs == {"p1", "p2"}
Tasks == {"t1", "t2"}
\* A process without a Store: no listener.
NoSession == [listening |-> FALSE, since |-> 0, inbox |-> <<>>, taken |-> 0]
NoChan ==
    [published |-> 0, log |-> <<>>, sessions |-> [p \in Procs |-> NoSession],
     returned |-> {}, runs |-> {}, dropped |-> {}, requests |-> {}]
\* The processes that start against one database.  None has started its
\* migrations: advisory lock 1 is free and no migration is applied.
Starters == Procs \cup {"p3"}
NoMig == [lock |-> {}, pc |-> [p \in Starters |-> "start"], version |-> 0]
InitAux ==
    /\ job = NoJob
    /\ reports = {}
    /\ chan = NoChan
    /\ mig = NoMig

(***************************************************************************)
(* The pois table: its rows, its constraints, its statements.              *)
(***************************************************************************)
\* A row of pois for a PoI inserted at time `now`; the live flag defaults to false.
NewPoI(p, now) ==
    [indexer |-> p.indexer, deployment |-> p.deployment, block |-> p.block,
     poi |-> p.poi, created_at |-> now, live |-> FALSE]

\* A table without the unique key: no insert violates it.
NoUniqueKey(table, p) == FALSE
\* UNIQUE (indexer_id, sg_deployment_id, block_id): would inserting p violate it?
UniqueViolation(table, p) == \E r \in table : Key(r) = Key(p)

\* A table without the partial unique index.
NoLiveIndex(table) == FALSE
\* Partial UNIQUE (indexer_id, sg_deployment_id) WHERE live: does the table violate it?
LiveUniqueViolation(table) ==
    \E r1, r2 \in table :
        r1 # r2 /\ Pair(r1) = Pair(r2) /\ r1.live /\ r2.live

\* insert_into(..).values(..) alone: a row whose key is there already fails
\* the statement.
InsertPlain(table, row) ==
    [rows |-> IF UniqueViolation(table, row) THEN table ELSE table \cup {row},
     err |-> UniqueViolation(table, row)]
\* insert_into(..).values(..).on_conflict_do_nothing(): a row whose key is there
\* already is skipped and the statement succeeds.
InsertOnConflictDoNothing(table, row) ==
    [rows |-> IF UniqueViolation(table, row) THEN table ELSE table \cup {row},
     err |-> FALSE]

\* What a transaction has written and not yet committed: the rows it inserted
\* and the keys whose live flag it cleared (off) or set (on).
NoWrites == [ins |-> {}, off |-> {}, on |-> {}]

Apply(table, o) ==
    {[r EXCEPT !.live = IF Key(r) \in o.on THEN TRUE
                        ELSE IF Key(r) \in o.off THEN FALSE ELSE r.live] :
        r \in table \cup o.ins}

NoTx == [pc |-> "idle", pois |-> <<>>, live |-> NotLive, i |-> 1, now |-> 0,
         w |-> NoWrites, new |-> {}]

\* No call has just returned.
NoRet == [op |-> "none"]

\* write_pois of writer w returns to its caller: Ok (error "none") or the
\* error that ended it: "transport", or the constraint violated ("unique_poi",
\* "unique_live"). new: the keys it inserted.
WritePoisRet(w, error) ==
    [op |-> "write_pois", writer |-> w, pois |-> tx[w].pois, live |-> tx[w].live,
     new |-> tx[w].new, now |-> tx[w].now,
     result |-> IF error = "none" THEN "ok" ELSE "err", error |-> error]

\* The table as writer w's transaction sees it: committed rows and its own writes.
Visible(w) == Apply(pois, tx[w].w)

\* The statements run one by one on the connection, each committed at once.
NoTransaction == FALSE
\* Store::write_pois runs diesel_queries::write_pois inside conn.transaction:
\* nothing it writes is committed before the closure returns Ok.
InTransaction == TRUE

\* The statement of writer w has run: its writes so far are o, the keys it
\* newly inserted are new, and it goes on at pcNext.
Executed(w, o, new, i, pcNext) ==
    /\ pois' = IF InTransaction THEN pois ELSE Apply(pois, o)
    /\ tx' = [tx EXCEPT ![w] = [@ EXCEPT !.w = IF InTransaction THEN o ELSE NoWrites,
                                         !.new = new, !.i = i, !.pc = pcNext]]

\* The transaction of writer w ends in an error: its writes are rolled back.
RolledBack(w, error) ==
    /\ pois' = pois
    /\ tx' = [tx EXCEPT ![w] = NoTx]
    /\ ret' = WritePoisRet(w, error)

\* The statement ran and the closure goes on.
GoesOn(w, o, new, i, pcNext) ==
    /\ Executed(w, o, new, i, pcNext)
    /\ ret' = NoRet

\* A write that goes on to the live flags whatever its liveness.
AlwaysClear(batch, i, live) == IF i <= Len(batch) THEN "insert" ELSE "clear"
NextPc(batch, i, live) ==
    IF i <= Len(batch) THEN "insert"
    ELSE IF live = Live THEN "clear" ELSE "commit"

Touched(batch) == {Pair(p) : p \in Range(batch)}

(***************************************************************************)
(* Store::write_pois(pois, live), statement by statement.                  *)
(***************************************************************************)
TxBegin(w, batch, live) ==
    /\ tx[w].pc = "idle"
    /\ clock' = clock + 1
    /\ tx' = [tx EXCEPT ![w] = [NoTx EXCEPT !.pc = NextPc(batch, 1, live),
                                            !.pois = batch, !.live = live,
                                            !.now = clock + 1]]
    /\ ret' = NoRet
    /\ UNCHANGED pois

\* Insert the next PoI of the batch; a row that is there already is ignored.
\* An insert of a key another open transaction has inserted waits for it.
TxInsert(w) ==
    /\ tx[w].pc = "insert"
    /\ LET t == tx[w]
           p == t.pois[t.i]
           view == Visible(w)
           res == InsertOnConflictDoNothing(view, NewPoI(p, t.now))
           added == res.rows \ view
       IN  /\ \A w2 \in Writers \ {w} :
                  \A r \in tx[w2].w.ins : Key(r) # Key(p)
           /\ IF res.err
                 THEN RolledBack(w, "unique_poi")
                 ELSE GoesOn(w, [t.w EXCEPT !.ins = @ \cup added],
                             t.new \cup {Key(r) : r \in added},
                             t.i + 1, NextPc(t.pois, t.i + 1, t.live))
    /\ UNCHANGED clock

\* liveness = Live: clear the live flag of all pre-existing PoIs of each
\* (indexer, deployment) touched.
TxClearLive(w) ==
    /\ tx[w].pc = "clear"
    /\ LET t == tx[w]
           off == {Key(r) : r \in {x \in Visible(w) :
                       /\ Pair(x) \in Touched(t.pois)
                       /\ Key(x) \notin t.new
                       /\ x.live}}
       IN  /\ \A w2 \in Writers \ {w} : tx[w2].w.off \cap off = {}
           /\ GoesOn(w, [t.w EXCEPT !.off = @ \cup off], t.new, t.i, "setlive")
    /\ UNCHANGED clock

\* ... then set live = true on the newly inserted rows. The partial unique
\* index fails the statement when a pair would have two live rows, and makes
\* it wait while another open transaction holds a live row of the pair.
TxSetLive(w) ==
    /\ tx[w].pc = "setlive"
    /\ LET t == tx[w]
           o == [t.w EXCEPT !.on = @ \cup t.new]
           pairs == {<<k[1], k[2]>> : k \in t.new}
       IN  /\ \A w2 \in Writers \ {w} :
                  \A r \in tx[w2].w.ins :
                      ~(Key(r) \in tx[w2].w.on /\ Pair(r) \in pairs)
           /\ IF LiveUniqueViolation(Apply(pois, o))
                 THEN RolledBack(w, "unique_live")
                 ELSE GoesOn(w, o, t.new, t.i, "commit")
    /\ UNCHANGED clock

\* The closure returned Ok: the transaction commits.
TxCommit(w) ==
    /\ tx[w].pc = "commit"
    /\ pois' = Apply(pois, tx[w].w)
    /\ tx' = [tx EXCEPT ![w] = NoTx]
    /\ ret' = WritePoisRet(w, "none")
    /\ UNCHANGED clock

\* A statement fails (transport error, deadlock): the closure returns Err.
TxFail(w) ==
    /\ tx[w].pc \in {"insert", "clear", "setlive", "commit"}
    /\ RolledBack(w, "transport")
    /\ UNCHANGED clock

(***************************************************************************)
(* Store::pois: the query over the committed table.                        *)
(***************************************************************************)
\* The upper limit on the number of results (validator(maximum = 250)).
LimitCap == 250

Min(a, b) == IF a <= b THEN a ELSE b

\* The default ordering: block number descending, then deployment ascending,
\* then indexer address ascending.
Before(r1, r2) ==
    \/ r1.block.number > r2.block.number
    \/ /\ r1.block.number = r2.block.number
       /\ \/ r1.deployment < r2.deployment
          \/ r1.deployment = r2.deployment /\ r1.indexer < r2.indexer

RECURSIVE Ordered(_)
Ordered(S) ==
    IF S = {} THEN <<>>
    ELSE LET first == CHOOSE r \in S : \A x \in S \ {r} : ~Before(x, r)
         IN  <<first>> \o Ordered(S \ {first})

\* models::PoI, the row as the query loads it (the live flag is not loaded).
PoI(r) ==
    [indexer |-> r.indexer, deployment |-> r.deployment, block |-> r.block,
     poi |-> r.poi, created_at |-> r.created_at]

\* diesel_queries::pois(conn, indexer, sg_deployments, block_range, limit,
\* live_only). An optional argument is {} (None) or {v} (Some(v)); block_range
\* is the closed-open <<lo, hi>> on the block number.
diesel_queries_pois(table, indexer, sg_deployments, block_range, limit, live_only) ==
    LET match == {r \in table :
                    /\ \A i \in indexer : r.indexer = i
                    /\ \A ds \in sg_deployments : r.deployment \in ds
                    /\ \A br \in block_range :
                           br[1] <= r.block.number /\ r.block.number < br[2]
                    /\ live_only => r.live}
        sorted == Ordered(match)
        n == IF limit = {} THEN LimitCap
             ELSE Min(CHOOSE l \in limit : TRUE, LimitCap)
    IN  [k \in 1..Min(n, Len(sorted)) |-> PoI(sorted[k])]

\* The query of Store::live_pois for the same arguments: live rows only.
OnlyLivePois(sg_deployments, block_range, limit) ==
    diesel_queries_pois(pois, {}, {sg_deployments}, block_range, limit, TRUE)
\* Store::pois: any indexer, the given deployments, all rows live or not.
Store_pois(sg_deployments, block_range, limit) ==
    diesel_queries_pois(pois, {}, {sg_deployments}, block_range, limit, FALSE)

\* The caller of write_pois reads the PoIs back once the write has returned.
ReadPois(sg_deployments, block_range, limit) ==
    /\ ret.op = "write_pois"
    /\ ret' = [op |-> "pois", sg_deployments |-> sg_deployments,
               block_range |-> block_range, limit |-> limit,
               rows |-> Store_pois(sg_deployments, block_range, limit),
               after |-> ret]
    /\ UNCHANGED <<pois, clock, tx, round, bis, aux>>

BlockRanges == {{}, {<<10, 11>>}}
Limits == {{}, {1}}

\* The batches written: write_pois handles the PoIs of different keys
\* independently of each other, so a batch lists its keys in one order;
\* PoIs of the same key come in every order.
KeyOrder(p) == 1000 * p.indexer + 100 * p.deployment + p.block.number
Batches ==
    {b \in SeqsUpTo(ProofOfIndexing, Cardinality(ProofOfIndexing)) :
        \A m, n \in DOMAIN b :
            m < n => KeyOrder(b[m]) <= KeyOrder(b[n]) /\ b[m] # b[n]}

\* No polling round and no bisection run is in progress.
NoRound ==
    [pc |-> "idle", n |-> 0, pending |-> {}, indexing_statuses |-> {},
     query_successes |-> 0, query_failures |-> 0, pois |-> <<>>,
     prev |-> <<>>, last |-> <<>>, due |-> FALSE]
NoBisect == [state |-> "None"]

InitStore ==
    /\ InitAux
    /\ pois = {}
    /\ clock = 0
    /\ tx = [w \in Writers |-> NoTx]
    /\ ret = NoRet
    /\ round = NoRound
    /\ bis = NoBisect

\* Any task calls write_pois, with any batch; idle writers are interchangeable,
\* so the first of them takes the call.
StoreCall(w, batch, live) ==
    /\ w = "w1" \/ tx["w1"].pc # "idle"
    /\ clock < MaxWrites
    /\ TxBegin(w, batch, live)
    /\ UNCHANGED <<round, bis, aux>>
StoreInsert(w) == TxInsert(w) /\ UNCHANGED <<round, bis, aux>>
StoreClearLive(w) == TxClearLive(w) /\ UNCHANGED <<round, bis, aux>>
StoreSetLive(w) == TxSetLive(w) /\ UNCHANGED <<round, bis, aux>>
StoreCommit(w) == TxCommit(w) /\ UNCHANGED <<round, bis, aux>>
StoreFail(w) == TxFail(w) /\ UNCHANGED <<round, bis, aux>>

NextStore ==
    \/ \E w \in Writers, batch \in Batches, live \in PoiLiveness : StoreCall(w, batch, live)
    \/ \E w \in Writers : StoreInsert(w)
    \/ \E w \in Writers : StoreClearLive(w)
    \/ \E w \in Writers : StoreSetLive(w)
    \/ \E w \in Writers : StoreCommit(w)
    \/ \E w \in Writers : StoreFail(w)

SpecStore == InitStore /\ [][NextStore]_vars

\* The store with a caller that reads back what it wrote.
NextRead ==
    \/ NextStore
    \/ \E ds \in SUBSET Deployments \ {{}}, br \in BlockRanges, l \in Limits :
           ReadPois(ds, br, l)

SpecRead == InitStore /\ [][NextRead]_vars

(***************************************************************************)
(* The fan-out polling round: indexing statuses, block choice, PoIs, and   *)
(* the write of the round's PoIs as Live.                                  *)
(***************************************************************************)
MaxRounds == 2

\* The task of the polling loop, and a task that writes PoIs as NotLive.
Poller == "w1"
Other == "w2"

\* IndexingStatus { indexer, deployment, latest_block }: both indexers serve
\* deployment 1.
IndexingStatus == [indexer : Indexers, deployment : {1}, latest_block : Blocks]

\* What indexer.indexing_statuses() answers: an error, or the statuses of the
\* indexer's deployments, one per deployment.
IndexingStatusesResults(i) ==
    {[ok |-> FALSE, statuses |-> {}]} \cup
    {[ok |-> TRUE, statuses |-> S] :
        S \in {T \in SUBSET {s \in IndexingStatus : s.indexer = i} :
                 \A s1, s2 \in T : s1.deployment = s2.deployment => s1 = s2}}

\* query_indexing_statuses starts: one future per indexer.
RoundStart ==
    /\ round.pc = "idle"
    /\ round.n < MaxRounds
    /\ round' = [round EXCEPT !.pc = "statuses", !.n = @ + 1,
                              !.pending = Indexers, !.indexing_statuses = {},
                              !.query_successes = 0, !.query_failures = 0,
                              !.pois = <<>>]
    /\ ret' = NoRet
    /\ UNCHANGED <<pois, clock, tx, bis, aux>>

\* futures.next(): the answer of indexer i comes in, in any order. The
\* statuses of a success are kept, a failure is counted and dropped. When no
\* future is left query_indexing_statuses returns.
IndexingStatusesNext(i, query_res) ==
    /\ round.pc = "statuses"
    /\ i \in round.pending
    /\ round' = [round EXCEPT
          !.pending = @ \ {i},
          !.indexing_statuses = IF query_res.ok THEN @ \cup query_res.statuses ELSE @,
          !.query_successes = IF query_res.ok THEN @ + 1 ELSE @,
          !.query_failures = IF query_res.ok THEN @ ELSE @ + 1,
          !.pc = IF round.pending = {i} THEN "pois" ELSE "statuses"]
    /\ ret' = NoRet
    /\ UNCHANGED <<pois, clock, tx, bis, aux>>

\* BlockChoicePolicy::choose_block, the policy MaxSynced: the highest
\* latest block number observed; none for no statuses.
MaxSynced(statuses) ==
    IF statuses = {} THEN {}
    ELSE {CHOOSE n \in {s.latest_block.number : s \in statuses} :
              \A s \in statuses : n >= s.latest_block.number}

\* The default policy taken for the optimistic one.
HighestReported(statuses) == MaxSynced(statuses)

\* BlockChoicePolicy::choose_block, the default policy: the highest block
\* number that all the statuses have reached; none for no statuses.
choose_block(statuses) ==
    IF statuses = {} THEN {}
    ELSE {CHOOSE n \in {s.latest_block.number : s \in statuses} :
              \A s \in statuses : n <= s.latest_block.number}

statuses_by_deployment(indexing_statuses, deployment) ==
    {s \in indexing_statuses : s.deployment = deployment}

latest_blocks(indexing_statuses, deployment) ==
    choose_block(statuses_by_deployment(indexing_statuses, deployment))

\* The PoI requests sent to an indexer: the chosen block of every deployment
\* for which the indexer has a status that has reached the block.
poi_requests(indexing_statuses, indexer) ==
    {req \in UNION {{[deployment |-> d, block_number |-> n] :
                        n \in latest_blocks(indexing_statuses, d)} :
                    d \in {s.deployment : s \in indexing_statuses}} :
        \E s \in statuses_by_deployment(indexing_statuses, req.deployment) :
            s.indexer = indexer /\ s.latest_block.number >= req.block_number}

\* The PoI an indexer answers to a request.
AnswerPoI(indexer, req) ==
    [indexer |-> indexer, deployment |-> req.deployment,
     block |-> CHOOSE b \in Blocks : b.number = req.block_number, poi |-> "aa"]

\* The PoIs in the order they are written; the order of the Vec is that of
\* the futures' completion and is not observable in the store.
RECURSIVE InKeyOrder(_)
InKeyOrder(S) ==
    IF S = {} THEN <<>>
    ELSE LET first == CHOOSE p \in S : \A q \in S : KeyOrder(p) <= KeyOrder(q)
         IN  <<first>> \o InKeyOrder(S \ {first})

\* query_proofs_of_indexing: every indexer with a status is sent its requests;
\* `answered` are the requests that came back with a PoI, the others failed
\* and contribute nothing.
QueryProofsOfIndexing(answered) ==
    /\ round.pc = "pois"
    /\ LET indexers == {s.indexer : s \in round.indexing_statuses}
           requests == UNION {{<<i, req>> :
                                  req \in poi_requests(round.indexing_statuses, i)} :
                              i \in indexers}
       IN  /\ answered \subseteq requests
           /\ round' = [round EXCEPT
                 !.pc = "write",
                 !.pois = InKeyOrder({AnswerPoI(x[1], x[2]) : x \in answered})]
    /\ ret' = NoRet
    /\ UNCHANGED <<pois, clock, tx, bis, aux>>

\* The poll loop: write_pois(pois, Live).
PollWrite ==
    /\ round.pc = "write"
    /\ TxBegin(Poller, round.pois, Live)
    /\ round' = [round EXCEPT !.pc = "writing"]
    /\ UNCHANGED <<bis, aux>>

\* When write_pois returns the round is over; the next round starts only then.
\* last and prev: the batches of the last two writes of the loop that committed.
PollStep ==
    /\ round.pc = "writing"
    /\ round' = IF ret'.op # "write_pois" THEN round
                ELSE IF ret'.result # "ok" THEN [round EXCEPT !.pc = "idle"]
                ELSE [round EXCEPT !.pc = "idle", !.prev = round.last,
                                   !.last = ret'.pois]
    /\ UNCHANGED <<bis, aux>>
PollInsert == TxInsert(Poller) /\ PollStep
PollClearLive == TxClearLive(Poller) /\ PollStep
PollSetLive == TxSetLive(Poller) /\ PollStep
PollCommit == TxCommit(Poller) /\ PollStep
PollFail == TxFail(Poller) /\ PollStep

\* Another task (the bisection coordinator, a test) writes a PoI as NotLive.
AllRequests == Indexers \X [deployment : {1}, block_number : {b.number : b \in Blocks}]
OtherCall(x) ==
    /\ clock < MaxWrites
    /\ TxBegin(Other, <<AnswerPoI(x[1], x[2])>>, NotLive)
    /\ UNCHANGED <<round, bis, aux>>

NextRounds ==
    \/ RoundStart
    \/ \E i \in Indexers : \E query_res \in IndexingStatusesResults(i) :
           IndexingStatusesNext(i, query_res)
    \/ \E answered \in SUBSET AllRequests : QueryProofsOfIndexing(answered)
    \/ PollWrite
    \/ PollInsert
    \/ PollClearLive
    \/ PollSetLive
    \/ PollCommit
    \/ PollFail
    \/ \E x \in AllRequests : OtherCall(x)
    \/ StoreInsert(Other)
    \/ StoreCommit(Other)
    \/ StoreFail(Other)

SpecRounds == InitStore /\ [][NextRounds]_vars

(***************************************************************************)
(* The poll loop under its cadence: a tick starts a round, or is deferred  *)
(* while a round is in progress.                                           *)
(***************************************************************************)
\* The loop is between two rounds.
AnyTime(r) == TRUE
RoundOver(r) == r.pc = "idle"

\* The cadence fires: the next round starts, or the tick is kept for the end
\* of the round in progress.
Tick ==
    /\ round.n < MaxRounds
    /\ ~round.due
    /\ round' = IF RoundOver(round)
                THEN [round EXCEPT !.pc = "statuses", !.n = @ + 1,
                                   !.pending = Indexers, !.indexing_statuses = {},
                                   !.query_successes = 0, !.query_failures = 0,
                                   !.pois = <<>>]
                ELSE [round EXCEPT !.due = TRUE]
    /\ ret' = NoRet
    /\ UNCHANGED <<pois, clock, tx, bis, aux>>

\* The round is over and a tick was deferred: the next round starts now.
DeferredRound ==
    /\ round.due
    /\ RoundOver(round)
    /\ round' = [round EXCEPT !.pc = "statuses", !.n = @ + 1,
                              !.pending = Indexers, !.indexing_statuses = {},
                              !.query_successes = 0, !.query_failures = 0,
                              !.pois = <<>>, !.due = FALSE]
    /\ ret' = NoRet
    /\ UNCHANGED <<pois, clock, tx, bis, aux>>

NextCadence ==
    \/ Tick
    \/ DeferredRound
    \/ \E i \in Indexers : \E query_res \in IndexingStatusesResults(i) :
           IndexingStatusesNext(i, query_res)
    \/ \E answered \in SUBSET AllRequests : QueryProofsOfIndexing(answered)
    \/ PollWrite
    \/ PollInsert
    \/ PollClearLive
    \/ PollSetLive
    \/ PollCommit
    \/ PollFail

SpecCadence == InitStore /\ [][NextCadence]_vars

(***************************************************************************)
(* The bisection run over two PoI streams of one deployment.               *)
(***************************************************************************)
MaxN == 5

\* The PoI streams of the two indexers over blocks 1..n: they differ exactly
\* at the blocks of `differ`.
StreamA(differ, block) == "aa"
StreamB(differ, block) == IF block \in differ THEN "bb" ELSE "aa"

\* A run is requested for two stored PoIs that disagree at block n.
BisectionRun(n, differ) ==
    [state |-> "Start", n |-> n, differ |-> differ, lo |-> 0, hi |-> 0,
     mid |-> 0, incompletes |-> 0, tolerance |-> 0, narrowed |-> 0,
     block |-> 0, poi1 |-> "", poi2 |-> "", reason |-> "", report |-> "None"]

\* Start: lo = 1, hi = the block where the input PoIs disagree.
BisectStart ==
    /\ bis.state = "Start"
    /\ bis' = [bis EXCEPT !.state = "Probe", !.lo = 1, !.hi = bis.n,
                          !.tolerance = bis.n - 1]
    /\ UNCHANGED <<pois, clock, tx, ret, round, aux>>

\* A probe at lo itself.
MidLow(lo, hi) == lo
\* A linear scan: the probe next to lo.
MidLinear(lo, hi) == lo + 1
\* A probe at hi itself.
MidHigh(lo, hi) == hi
\* mid = lo + (hi - lo) / 2 (floor).
Mid(lo, hi) == lo + (hi - lo) \div 2

\* The block probed next: mid, or the alternative chosen after an Incomplete.
ProbeBlock == IF bis.mid = 0 THEN Mid(bis.lo, bis.hi) ELSE bis.mid

\* Probe(lo, hi) with hi - lo <= 1: Confirmed(hi).
ProbeConfirmed ==
    /\ bis.state = "Probe"
    /\ bis.hi - bis.lo <= 1
    /\ bis' = [bis EXCEPT !.state = "Confirmed", !.block = bis.hi,
                          !.poi1 = StreamA(bis.differ, bis.hi),
                          !.poi2 = StreamB(bis.differ, bis.hi)]
    /\ UNCHANGED <<pois, clock, tx, ret, round, aux>>

Probing == bis.state = "Probe" /\ bis.hi - bis.lo > 1

\* Both indexers return equal non-null PoIs: Probe(mid, hi).
ProbeEqual ==
    /\ Probing
    /\ StreamA(bis.differ, ProbeBlock) = StreamB(bis.differ, ProbeBlock)
    /\ bis' = [bis EXCEPT !.lo = ProbeBlock, !.mid = 0, !.narrowed = @ + 1]
    /\ UNCHANGED <<pois, clock, tx, ret, round, aux>>

\* Both return unequal non-null PoIs: Probe(lo, mid).
ProbeUnequal ==
    /\ Probing
    /\ StreamA(bis.differ, ProbeBlock) # StreamB(bis.differ, ProbeBlock)
    /\ bis' = [bis EXCEPT !.hi = ProbeBlock, !.mid = 0, !.narrowed = @ + 1]
    /\ UNCHANGED <<pois, clock, tx, ret, round, aux>>

\* The same block again.
SameAgain(lo, hi, mid) == {mid}
\* mid' = mid - 1 or mid + 1, strictly between lo and hi.
Alternatives(lo, hi, mid) == {m \in {mid - 1, mid + 1} : lo < m /\ m < hi}

\* Either call fails or returns null: the step is Incomplete and the probe
\* moves to mid - 1 or mid + 1; Failed("gap") if neither lies strictly between
\* lo and hi. At most hi - lo Incomplete steps are tolerated.
ProbeIncomplete ==
    /\ Probing
    /\ LET alternatives == Alternatives(bis.lo, bis.hi, ProbeBlock)
       IN  IF bis.incompletes = bis.tolerance
              THEN bis' = [bis EXCEPT !.state = "Failed", !.reason = "incomplete"]
           ELSE IF alternatives = {}
              THEN bis' = [bis EXCEPT !.state = "Failed", !.reason = "gap",
                                      !.incompletes = @ + 1]
           ELSE \E m \in alternatives :
                   bis' = [bis EXCEPT !.mid = m, !.incompletes = @ + 1]
    /\ UNCHANGED <<pois, clock, tx, ret, round, aux>>

\* The indexers report that they have not indexed mid: Failed("unindexed").
ProbeUnindexed ==
    /\ Probing
    /\ bis' = [bis EXCEPT !.state = "Failed", !.reason = "unindexed"]
    /\ UNCHANGED <<pois, clock, tx, ret, round, aux>>

InitBisect ==
    /\ InitAux
    /\ pois = {}
    /\ clock = 0
    /\ tx = [w \in Writers |-> NoTx]
    /\ ret = NoRet
    /\ round = NoRound
    /\ \E n \in 1..MaxN : \E differ \in SUBSET (1..n) :
          n \in differ /\ bis = BisectionRun(n, differ)

NextBisect ==
    \/ BisectStart
    \/ ProbeConfirmed
    \/ ProbeEqual
    \/ ProbeUnequal
    \/ ProbeIncomplete
    \/ ProbeUnindexed

SpecBisect == InitBisect /\ [][NextBisect]_vars

\* A run is driven to completion: every probe is answered or times out.
SpecBisectFair == SpecBisect /\ WF_vars(NextBisect)

(***************************************************************************)
(* The report of a divergence investigation: requested through the API,    *)
(* produced by the worker that runs the bisection, read through the API.   *)
(***************************************************************************)
\* launchDivergenceInvestigation: the request is queued under a fresh uuid.
LaunchInvestigation(n, differ) ==
    /\ bis = NoBisect
    /\ bis' = BisectionRun(n, differ)
    /\ UNCHANGED <<pois, clock, tx, ret, round, aux>>

\* The status a finished run is reported with.
AlwaysComplete(state) == "Complete"
ReportStatusOf(state) == IF state = "Confirmed" THEN "Complete" ELSE "Failed"

\* The worker writes the terminal report of the run it has driven to its end.
WriteReport ==
    /\ bis.state \in {"Confirmed", "Failed"}
    /\ bis.report = "None"
    /\ bis' = [bis EXCEPT !.report = ReportStatusOf(bis.state)]
    /\ UNCHANGED <<pois, clock, tx, ret, round, aux>>

\* The run is cancelled (or the worker dies): the probe is abandoned and no
\* report is written.
CancelRun ==
    /\ bis.state \in {"Start", "Probe"}
    /\ bis' = [bis EXCEPT !.state = "Cancelled"]
    /\ UNCHANGED <<pois, clock, tx, ret, round, aux>>

\* QueryRoot::divergence_investigation_report(uuid): the stored report if
\* there is one, an empty InProgress report if only the request exists,
\* nothing otherwise.
divergence_investigation_report ==
    IF bis.state # "None" /\ bis.report # "None" THEN bis.report
    ELSE IF bis.state # "None" THEN "InProgress"
    ELSE "NoReport"

InitReport ==
    /\ InitAux
    /\ pois = {}
    /\ clock = 0
    /\ tx = [w \in Writers |-> NoTx]
    /\ ret = NoRet
    /\ round = NoRound
    /\ bis = NoBisect

NextReport ==
    \/ \E n \in 1..MaxN : \E differ \in SUBSET (1..n) :
           n \in differ /\ LaunchInvestigation(n, differ)
    \/ NextBisect
    \/ WriteReport
    \/ CancelRun

SpecReport == InitReport /\ [][NextReport]_vars

\* The run of the scenario "gap": blocks 1..10, an indexer that returns no
\* PoI the first two times block 5 is probed and answers at every other block.
GapScenario == [blocks |-> 10, fails_at |-> 5, times |-> 2]

\* The probe of the block is one that fails.
NoAnswer == ProbeBlock = GapScenario.fails_at /\ bis.incompletes < GapScenario.times

GapEqual == ~NoAnswer /\ ProbeEqual
GapUnequal == ~NoAnswer /\ ProbeUnequal
GapIncomplete == NoAnswer /\ ProbeIncomplete

InitBisectGap ==
    /\ InitAux
    /\ pois = {}
    /\ clock = 0
    /\ tx = [w \in Writers |-> NoTx]
    /\ ret = NoRet
    /\ round = NoRound
    /\ \E k \in 1..GapScenario.blocks :
          bis = BisectionRun(GapScenario.blocks, k..GapScenario.blocks)

NextBisectGap ==
    \/ BisectStart
    \/ ProbeConfirmed
    \/ GapEqual
    \/ GapUnequal
    \/ GapIncomplete

SpecBisectGap == InitBisectGap /\ [][NextBisectGap]_vars
\* The run is driven to its end.
SpecBisectGapFair == SpecBisectGap /\ WF_vars(NextBisectGap)

\* Runs over longer ranges, for streams that stay diverged from their first
\* diverging block k on (a PoI digests the history of the deployment).
MaxBlocks == 10

InitBisectDiverged ==
    /\ InitAux
    /\ pois = {}
    /\ clock = 0
    /\ tx = [w \in Writers |-> NoTx]
    /\ ret = NoRet
    /\ round = NoRound
    /\ \E n \in 1..MaxBlocks : \E k \in 1..n : bis = BisectionRun(n, k..n)

SpecBisectDiverged == InitBisectDiverged /\ [][NextBisect]_vars

(***************************************************************************)
(* One polling round in full: query_indexing_statuses and                  *)
(* query_proofs_of_indexing with every concurrent call to an indexer as a  *)
(* step of its own, the metrics, and the underlying calls of               *)
(* proofs_of_indexing. The store takes no part.                            *)
(***************************************************************************)
\* The highest block number an indexer reports.
MaxLatest == 11
LatestBlocks == 10..MaxLatest

\* The statuses indexer i can report: any deployment, any latest block.
IndexingStatusOf(i) ==
    [indexer : {i}, deployment : Deployments, latest_block : [number : LatestBlocks]]

RECURSIVE ByDeployment(_)
ByDeployment(S) ==
    IF S = {} THEN <<>>
    ELSE LET first == CHOOSE s \in S : \A t \in S : s.deployment <= t.deployment
         IN  <<first>> \o ByDeployment(S \ {first})

\* What indexer.indexing_statuses() answers: an error, or the Vec of the
\* statuses of the indexer's deployments, one per deployment.
IndexingStatusesResponses(i) ==
    {[ok |-> FALSE, statuses |-> <<>>]} \cup
    {[ok |-> TRUE, statuses |-> ByDeployment(S)] :
        S \in {T \in SUBSET IndexingStatusOf(i) :
                 \A s1, s2 \in T : s1.deployment = s2.deployment => s1 = s2}}

\* How an indexer answers publicProofsOfIndexing: it answers the requests of
\* the deployments in ok, fails those in unsupported with "Cannot query
\* field", and fails the others with another error.
ProofsOfIndexingResponses ==
    {[ok |-> D, unsupported |-> U] :
        D \in SUBSET Deployments, U \in SUBSET Deployments} \cap
    {r \in [ok : SUBSET Deployments, unsupported : SUBSET Deployments] :
        r.ok \cap r.unsupported = {}}

\* The responses of an indexer whose schema has the field, or lacks it for
\* every call.
SchemaResponses ==
    {r \in ProofsOfIndexingResponses : r.unsupported \in {{}, Deployments}}

\* The block choice policies: the two of the block choice module, and a
\* policy result of none for every deployment.
BlockChoicePolicy == {"CommonTip", "MaxSynced", "NoBlock"}

Labels == Indexers \X {"0", "1"}

\* The state of a round at the call of query_indexing_statuses(indexers).
PollRound(indexers, block_choice_policy, statuses, proofs) ==
    [pc |-> "statuses", indexers |-> indexers,
     block_choice_policy |-> block_choice_policy,
     responses |-> [indexing_statuses |-> statuses, proofs_of_indexing |-> proofs],
     pending |-> indexers, indexing_statuses |-> <<>>,
     query_successes |-> 0, query_failures |-> 0,
     indexing_statuses_requests |-> [l \in Labels |-> 0],
     poi_requests |-> [i \in Indexers |-> <<>>],
     called |-> {}, running |-> {}, skipped |-> {},
     calls |-> [i \in Indexers |-> <<>>],
     gathered |-> [i \in Indexers |-> <<>>],
     public_poi_requests |-> [l \in Labels |-> 0],
     pois |-> <<>>]

\* match query_res: the statuses of a success are appended, those of a
\* failure dropped.
Poisoned(indexing_statuses, query_res) ==
    IF query_res.ok THEN indexing_statuses \o query_res.statuses ELSE <<>>
KeepLast(indexing_statuses, query_res) ==
    IF query_res.ok THEN query_res.statuses ELSE indexing_statuses
Aggregate(indexing_statuses, query_res) ==
    IF query_res.ok THEN indexing_statuses \o query_res.statuses
    ELSE indexing_statuses

\* The label value of the outcome counter.
AlwaysSuccess(query_res) == "1"
SuccessLabel(query_res) == IF query_res.ok THEN "1" ELSE "0"

\* futures.next() in query_indexing_statuses: the answer of indexer i comes
\* in, in any order.
FuturesNext(i) ==
    /\ round.pc = "statuses"
    /\ i \in round.pending
    /\ LET query_res == round.responses.indexing_statuses[i]
       IN  round' = [round EXCEPT
              !.pending = @ \ {i},
              !.indexing_statuses = Aggregate(@, query_res),
              !.query_successes = IF query_res.ok THEN @ + 1 ELSE @,
              !.query_failures = IF query_res.ok THEN @ ELSE @ + 1,
              !.indexing_statuses_requests[<<i, SuccessLabel(query_res)>>] = @ + 1]
    /\ UNCHANGED <<pois, clock, tx, ret, bis, aux>>

\* block_choice_policy.choose_block(statuses).
ChooseBlock(block_choice_policy, statuses) ==
    CASE block_choice_policy = "CommonTip" -> choose_block(statuses)
      [] block_choice_policy = "MaxSynced" -> MaxSynced(statuses)
      [] OTHER -> {}

\* Some(number) >= block_number on Option<u64>: None is below every Some.
AnyBlock(number, block_number) == TRUE
SomeGe(number, block_number) ==
    block_number = {} \/ \E b \in block_number : number >= b

\* The poi_requests of an indexer: filter the chosen blocks by the indexer's
\* statuses, then drop the deployments without a chosen block.
PoiRequest(block_choice_policy, indexing_statuses, indexer) ==
    LET deployments == {s.deployment : s \in indexing_statuses}
        latest_block(d) ==
            ChooseBlock(block_choice_policy,
                        statuses_by_deployment(indexing_statuses, d))
        kept == {d \in deployments :
                    \E s \in statuses_by_deployment(indexing_statuses, d) :
                        /\ s.indexer = indexer
                        /\ SomeGe(s.latest_block.number, latest_block(d))}
    IN  UNION {{[deployment |-> d, block_number |-> b] : b \in latest_block(d)} :
               d \in kept}

\* The orders a HashMap iteration can give to the elements of S.
Perms(S) ==
    {q \in SeqsUpTo(S, Cardinality(S)) : Len(q) = Cardinality(S) /\ Range(q) = S}

\* query_indexing_statuses returns and query_proofs_of_indexing starts a
\* future per indexer of the statuses, each with its poi_requests in the
\* order of the map's iteration.
QueryProofsOfIndexingStart ==
    /\ round.pc = "statuses"
    /\ round.pending = {}
    /\ LET statuses == Range(round.indexing_statuses)
           indexers == {s.indexer : s \in statuses}
           orders(i) == IF i \in indexers
                        THEN Perms(PoiRequest(round.block_choice_policy,
                                              statuses, i))
                        ELSE {<<>>}
       IN  \E order \in [Indexers -> UNION {orders(i) : i \in Indexers}] :
              /\ \A i \in Indexers : order[i] \in orders(i)
              /\ round' = [round EXCEPT
                    !.pc = IF indexers = {} THEN "done" ELSE "pois",
                    !.poi_requests = order,
                    !.called = indexers,
                    !.running = indexers]
    /\ UNCHANGED <<pois, clock, tx, ret, bis, aux>>

\* requests.chunks(size).
OneChunk(requests, size) == IF requests = <<>> THEN <<>> ELSE <<requests>>
chunks(requests, size) ==
    [k \in 1..((Len(requests) + size - 1) \div size) |->
        SubSeq(requests, (k - 1) * size + 1, Min(k * size, Len(requests)))]

\* The size of the chunks.
ChunkSize == 1

\* The PoI an indexer answers to a request: at the block requested.
AnswerElsewhere(indexer, request) ==
    [indexer |-> indexer, deployment |-> request.deployment,
     block |-> [number |-> request.block_number + indexer - 1], poi |-> "aa"]
public_proof_of_indexing(indexer, request) ==
    [indexer |-> indexer, deployment |-> request.deployment,
     block |-> [number |-> request.block_number], poi |-> "aa"]

\* RealIndexer::proofs_of_indexing_batch: an error for the whole batch, or
\* the PoIs of its requests.
proofs_of_indexing_batch(indexer, requests, response) ==
    IF \E k \in DOMAIN requests : requests[k].deployment \in response.unsupported
    THEN [ok |-> FALSE, unsupported |-> TRUE, pois |-> <<>>]
    ELSE IF \A k \in DOMAIN requests : requests[k].deployment \in response.ok
    THEN [ok |-> TRUE, unsupported |-> FALSE,
          pois |-> [k \in DOMAIN requests |->
                       public_proof_of_indexing(indexer, requests[k])]]
    ELSE [ok |-> FALSE, unsupported |-> FALSE, pois |-> <<>>]

\* match result: the PoIs of a batch are appended, a failed batch leaves the
\* PoIs gathered so far.
DropGathered(gathered, result) ==
    IF result.ok THEN gathered \o result.pois ELSE <<>>
Extend(gathered, result) ==
    IF result.ok THEN gathered \o result.pois ELSE gathered

\* The loop is left on the error of an indexer without the field.
NeverSkips(result) == FALSE
Skips(result) == result.unsupported

\* One turn of the loop of RealIndexer::proofs_of_indexing: the next chunk
\* is sent, its outcome counted, and the loop is left when the indexer does
\* not know publicProofsOfIndexing.
ProofsOfIndexingBatch(i) ==
    /\ round.pc = "pois"
    /\ i \in round.running
    /\ i \notin round.skipped
    /\ LET batches == chunks(round.poi_requests[i], ChunkSize)
           k == Len(round.calls[i]) + 1
       IN  /\ k \in DOMAIN batches
           /\ LET result == proofs_of_indexing_batch(
                                i, batches[k],
                                round.responses.proofs_of_indexing[i])
              IN  round' = [round EXCEPT
                     !.calls[i] = Append(@, [requests |-> batches[k],
                                             ok |-> result.ok,
                                             unsupported |-> result.unsupported]),
                     !.public_poi_requests[<<i, SuccessLabel(result)>>] = @ + 1,
                     !.gathered[i] = Extend(@, result),
                     !.skipped = IF Skips(result) THEN @ \cup {i} ELSE @]
    /\ UNCHANGED <<pois, clock, tx, ret, bis, aux>>

\* proofs_of_indexing of indexer i returns; its future completes and its
\* PoIs are collected. After the last future the PoIs are returned.
ProofsOfIndexingReturn(i) ==
    /\ round.pc = "pois"
    /\ i \in round.running
    /\ \/ i \in round.skipped
       \/ Len(round.calls[i]) = Len(chunks(round.poi_requests[i], ChunkSize))
    /\ round' = [round EXCEPT
          !.running = @ \ {i},
          !.pois = @ \o round.gathered[i],
          !.pc = IF round.running = {i} THEN "done" ELSE "pois"]
    /\ UNCHANGED <<pois, clock, tx, ret, bis, aux>>

InitPoll ==
    /\ InitAux
    /\ pois = {}
    /\ clock = 0
    /\ tx = [w \in Writers |-> NoTx]
    /\ ret = NoRet
    /\ bis = NoBisect
    /\ \E indexers \in SUBSET Indexers, policy \in BlockChoicePolicy :
       \E statuses \in [Indexers -> UNION {IndexingStatusesResponses(i) : i \in Indexers}],
          proofs \in [Indexers -> SchemaResponses] :
          /\ \A i \in indexers : statuses[i] \in IndexingStatusesResponses(i)
          /\ \A i \in Indexers \ indexers :
                 /\ statuses[i] = [ok |-> FALSE, statuses |-> <<>>]
                 /\ proofs[i] = [ok |-> {}, unsupported |-> Deployments]
          /\ round = PollRound(indexers, policy, statuses, proofs)

NextPoll ==
    \/ \E i \in Indexers : FuturesNext(i)
    \/ QueryProofsOfIndexingStart
    \/ \E i \in Indexers : ProofsOfIndexingBatch(i)
    \/ \E i \in Indexers : ProofsOfIndexingReturn(i)

SpecPoll == InitPoll /\ [][NextPoll]_vars

(***************************************************************************)
(* One call of proofs_of_indexing of one indexer, with any requests and    *)
(* any outcome of each underlying call.                                    *)
(***************************************************************************)
\* The longest Vec of requests of a call.
MaxRequests == 3
Callee == 1

InitProofs ==
    /\ InitAux
    /\ pois = {}
    /\ clock = 0
    /\ tx = [w \in Writers |-> NoTx]
    /\ ret = NoRet
    /\ bis = NoBisect
    /\ \E requests \in SeqsUpTo([deployment : Deployments,
                                   block_number : LatestBlocks], MaxRequests),
          response \in ProofsOfIndexingResponses :
          round = [PollRound({Callee}, "CommonTip",
                             [i \in Indexers |-> [ok |-> FALSE, statuses |-> <<>>]],
                             [i \in Indexers |-> response])
                   EXCEPT !.pc = "pois", !.pending = {},
                          !.called = {Callee}, !.running = {Callee},
                          !.poi_requests[Callee] = requests]

NextProofs ==
    \/ ProofsOfIndexingBatch(Callee)
    \/ ProofsOfIndexingReturn(Callee)

SpecProofs == InitProofs /\ [][NextProofs]_vars

(***************************************************************************)
(* db::proofs_of_indexing::write: the task that takes the PoIs in chunks   *)
(* and writes each chunk with retries.                                     *)
(***************************************************************************)
\* The chunks a task is given.
MaxChunks == 2
\* The handler forwards the error once this many errors were counted.
MaxConsecutiveErrors == 5
\* Seconds waited before a retry.
RetryWait == 1

RECURSIVE InsertAll(_, _, _)
InsertAll(table, chunk, now) ==
    IF chunk = <<>> THEN table
    ELSE InsertAll(InsertOnConflictDoNothing(table, NewPoI(Head(chunk), now)).rows,
                   Tail(chunk), now)

\* ready_chunks(100): the chunks are never empty.
Chunks == Batches \ {<<>>}

\* for_each takes the next chunk: consecutive_errors = 0 and FutureRetry
\* starts its first attempt.
WriteChunk(chunk) ==
    /\ job.pc \in {"idle", "done"}
    /\ (IF job.pc = "idle" THEN 0 ELSE job.chunks) < MaxChunks
    /\ job' = [pc |-> "attempt", chunk |-> chunk,
               chunks |-> (IF job.pc = "idle" THEN 0 ELSE job.chunks) + 1,
               consecutive_errors |-> 0, attempts |-> 0, waited |-> 0,
               result |-> "none", warned |-> FALSE, output |-> "none"]
    /\ UNCHANGED <<pois, clock, tx, ret, round, bis, reports, chan, mig>>

\* The error handler of the retry.
ForwardError(consecutive_errors) == consecutive_errors >= MaxConsecutiveErrors

\* One attempt that succeeds: the chunk is inserted and the retrying ends;
\* the closure of for_each gives ().
AttemptOk ==
    /\ job.pc = "attempt"
    /\ pois' = InsertAll(pois, job.chunk, clock)
    /\ job' = [job EXCEPT !.pc = "done", !.attempts = @ + 1,
                          !.result = "ok", !.output = "unit"]
    /\ UNCHANGED <<clock, tx, ret, round, bis, reports, chan, mig>>

\* One attempt that fails (no connection, or the insert fails): the handler
\* either counts the error and asks for a retry after the wait, or resets the
\* count and forwards the error; map_err then warns and the closure of
\* for_each gives ().
AttemptErr ==
    /\ job.pc = "attempt"
    /\ job' = IF ForwardError(job.consecutive_errors)
              THEN [job EXCEPT !.pc = "done", !.attempts = @ + 1,
                               !.consecutive_errors = 0,
                               !.result = "error", !.warned = TRUE,
                               !.output = "unit"]
              ELSE [job EXCEPT !.pc = "wait", !.attempts = @ + 1,
                               !.consecutive_errors = @ + 1]
    /\ UNCHANGED <<pois, clock, tx, ret, round, bis, reports, chan, mig>>

\* RetryPolicy::WaitRetry(1 s): the wait is over and the next attempt starts.
WaitRetry ==
    /\ job.pc = "wait"
    /\ job' = [job EXCEPT !.pc = "attempt", !.waited = @ + RetryWait]
    /\ UNCHANGED <<pois, clock, tx, ret, round, bis, reports, chan, mig>>

InitJob ==
    /\ pois = {}
    /\ clock = 0
    /\ tx = [w \in Writers |-> NoTx]
    /\ ret = NoRet
    /\ round = NoRound
    /\ bis = NoBisect
    /\ InitAux

NextJob ==
    \/ \E chunk \in Chunks : WriteChunk(chunk)
    \/ AttemptOk
    \/ AttemptErr
    \/ WaitRetry

SpecJob == InitJob /\ [][NextJob]_vars

(***************************************************************************)
(* Table poi_divergence_bisect_reports and                                 *)
(* Store::write_divergence_bisect_report.                                  *)
(***************************************************************************)
\* The PoIs stored when the reports are written; the ids are not in the
\* order of the digests.
StoredPoIs ==
    {[id |-> 2] @@ NewPoI([indexer |-> 1, deployment |-> 1,
                           block |-> [number |-> 10, hash |-> "h10"],
                           poi |-> "aa"], 0),
     [id |-> 1] @@ NewPoI([indexer |-> 2, deployment |-> 1,
                           block |-> [number |-> 10, hash |-> "h10"],
                           poi |-> "bb"], 0),
     [id |-> 3] @@ NewPoI([indexer |-> 1, deployment |-> 1,
                           block |-> [number |-> 11, hash |-> "h11"],
                           poi |-> "cc"], 0)}
\* The ids of table blocks.
BlockIds == {1, 2}

\* Store::poi(poi): the stored PoI with that digest, if any.
Store_poi(table, poi) == {r \in table : r.poi = poi}

\* Normalize pairing order to avoid duplicates.
AsGiven(poi1_id, poi2_id) == <<poi1_id, poi2_id>>
Normalize(poi1_id, poi2_id) ==
    IF poi1_id < poi2_id THEN <<poi1_id, poi2_id>> ELSE <<poi2_id, poi1_id>>

\* UNIQUE (poi1_id, poi2_id) with poi1_id < poi2_id: would inserting row
\* violate a constraint of the table?
ReportViolation(table, row) ==
    \/ \E r \in table : r.poi1_id = row.poi1_id /\ r.poi2_id = row.poi2_id
    \/ ~(row.poi1_id < row.poi2_id)

\* Store::write_divergence_bisect_report(poi1, poi2, divergence_block): both
\* PoIs are looked up, the pair is normalised and the row inserted with a
\* plain INSERT .. RETURNING id.
WriteDivergenceBisectReport(poi1, poi2, divergence_block) ==
    /\ Store_poi(pois, poi1) # {} /\ Store_poi(pois, poi2) # {}
    /\ LET poi1_id == (CHOOSE r \in Store_poi(pois, poi1) : TRUE).id
           poi2_id == (CHOOSE r \in Store_poi(pois, poi2) : TRUE).id
           pair == Normalize(poi1_id, poi2_id)
           row == [id |-> Cardinality(reports) + 1,
                   poi1_id |-> pair[1], poi2_id |-> pair[2],
                   divergence_block_id |-> divergence_block,
                   created_at |-> clock]
           error == ReportViolation(reports, row)
       IN  /\ reports' = IF error THEN reports ELSE reports \cup {row}
           /\ ret' = [op |-> "write_divergence_bisect_report",
                      poi1 |-> poi1, poi2 |-> poi2,
                      poi1_id |-> poi1_id, poi2_id |-> poi2_id,
                      divergence_block |-> divergence_block,
                      before |-> reports,
                      result |-> IF error THEN "error" ELSE "ok",
                      id |-> IF error THEN {} ELSE {row.id}]
    /\ UNCHANGED <<pois, clock, tx, round, bis, job, chan, mig>>

InitBisectReports ==
    /\ pois = StoredPoIs
    /\ clock = 0
    /\ tx = [w \in Writers |-> NoTx]
    /\ ret = NoRet
    /\ round = NoRound
    /\ bis = NoBisect
    /\ InitAux

NextBisectReports ==
    \E poi1, poi2 \in {r.poi : r \in StoredPoIs}, divergence_block \in BlockIds :
        WriteDivergenceBisectReport(poi1, poi2, divergence_block)

SpecBisectReports == InitBisectReports /\ [][NextBisectReports]_vars

(***************************************************************************)
(* The channel cross_check_reports: Store::new attaches a listener,        *)
(* queue_cross_check_report publishes, recv_cross_check_report_request     *)
(* takes the next notification of the process's listener; the worker loop  *)
(* runs what it receives.                                                  *)
(***************************************************************************)
\* The notifications published.
MaxNotifications == 2
Uuids == 1..MaxNotifications
Payloads == {"json", "garbage"}

\* What a listener that attaches holds of the notifications published so far.
Backlog(log) == log
NewQueue(log) == <<>>

\* Store::new: the listener connects and listens on the channel.
StoreNew(p) ==
    /\ ~chan.sessions[p].listening
    /\ chan' = [chan EXCEPT !.sessions[p] =
                    [listening |-> TRUE, since |-> chan.published,
                     inbox |-> NewQueue(chan.log), taken |-> 0]]
    /\ UNCHANGED <<pois, clock, tx, ret, round, bis, job, reports, mig>>

\* NOTIFY: the message is handed to every session that listens now, and to
\* nobody else.
Notify(c, msg) ==
    [c EXCEPT !.published = @ + 1,
              !.log = Append(@, msg),
              !.sessions = [q \in Procs |->
                               IF c.sessions[q].listening
                               THEN [c.sessions[q] EXCEPT !.inbox = Append(@, msg)]
                               ELSE c.sessions[q]]]

\* Store::queue_cross_check_report: a fresh uuid, pg_notify of {uuid, req} as
\* JSON text, Ok(uuid).
QueueCrossCheckReport(p) ==
    /\ chan.sessions[p].listening
    /\ chan.published < MaxNotifications
    /\ LET uuid == chan.published + 1
       IN  /\ chan' = Notify(chan, [uuid |-> uuid, payload |-> "json"])
           /\ ret' = [op |-> "queue_cross_check_report", proc |-> p,
                      result |-> "ok", uuid |-> uuid]
    /\ UNCHANGED <<pois, clock, tx, round, bis, job, reports, mig>>

\* Another client of the database notifies the channel, with any payload.
ForeignNotify(payload) ==
    /\ chan.published < MaxNotifications
    /\ chan' = Notify(chan, [uuid |-> chan.published + 1, payload |-> payload])
    /\ UNCHANGED <<pois, clock, tx, ret, round, bis, job, reports, mig>>

\* serde_json::from_str(notification.payload()): the request, or an error.
Lenient(msg) == {msg.uuid}
FromStr(msg) == IF msg.payload = "json" THEN {msg.uuid} ELSE {}

\* Task t of process p, not busy with a request.
Waiting(p, t) ==
    /\ chan.sessions[p].listening
    /\ \A r \in chan.runs : ~(r.proc = p /\ r.task = t /\ r.state = "running")

\* One turn of the worker loop of task t of process p:
\* recv_cross_check_report_request takes the next notification of the
\* process's listener under the mutex; a request is run, an error is logged
\* and the loop goes on.
Dispatch(p, t) ==
    /\ Waiting(p, t)
    /\ chan.sessions[p].taken < Len(chan.sessions[p].inbox)
    /\ LET notification == chan.sessions[p].inbox[chan.sessions[p].taken + 1]
           payload == FromStr(notification)
           call == [proc |-> p, task |-> t, uuid |-> notification.uuid]
       IN  /\ chan' = [chan EXCEPT
                 !.sessions[p].taken = @ + 1,
                 !.returned = @ \cup {call},
                 !.runs = IF payload = {} THEN @
                          ELSE @ \cup {[proc |-> p, task |-> t,
                                        uuid |-> notification.uuid,
                                        state |-> "running"]},
                 !.dropped = IF payload = {} THEN @ \cup {call} ELSE @]
           /\ ret' = [op |-> "recv_cross_check_report_request", proc |-> p,
                      result |-> IF payload = {} THEN "error" ELSE "ok",
                      uuid |-> notification.uuid]
    /\ UNCHANGED <<pois, clock, tx, round, bis, job, reports, mig>>

\* The worker has run the request to completion and written its report.
RunCompletes(p, t, uuid) ==
    /\ LET r == [proc |-> p, task |-> t, uuid |-> uuid, state |-> "running"]
       IN  /\ r \in chan.runs
           /\ chan' = [chan EXCEPT
                 !.runs = (@ \ {r}) \cup {[r EXCEPT !.state = "reported"]}]
    /\ UNCHANGED <<pois, clock, tx, ret, round, bis, job, reports, mig>>

\* Process p dies: its listener is gone with what it held, its runs end
\* without a report.
Crash(p) ==
    /\ chan.sessions[p].listening
    /\ chan' = [chan EXCEPT
          !.sessions[p] = NoSession,
          !.runs = {IF r.proc = p /\ r.state = "running"
                    THEN [r EXCEPT !.state = "crashed"] ELSE r : r \in @}]
    /\ UNCHANGED <<pois, clock, tx, ret, round, bis, job, reports, mig>>

\* QueryRoot::divergence_investigation_report(uuid): the stored report if
\* there is one, an empty InProgress report if the request is stored, None
\* otherwise.
ReportOf(c, uuid) ==
    IF \E r \in c.runs : r.uuid = uuid /\ r.state = "reported" THEN "Report"
    ELSE IF uuid \in c.requests THEN "InProgress"
    ELSE "None"

\* The caller of queue_cross_check_report looks up the uuid it was given.
LookupReport ==
    /\ ret.op = "queue_cross_check_report"
    /\ ret' = [op |-> "divergence_investigation_report", uuid |-> ret.uuid,
               result |-> ReportOf(chan, ret.uuid)]
    /\ UNCHANGED <<pois, clock, tx, round, bis, job, reports, chan, mig>>

InitBus ==
    /\ pois = {}
    /\ clock = 0
    /\ tx = [w \in Writers |-> NoTx]
    /\ ret = NoRet
    /\ round = NoRound
    /\ bis = NoBisect
    /\ InitAux

NextBus ==
    \/ \E p \in Procs : StoreNew(p)
    \/ \E p \in Procs : QueueCrossCheckReport(p)
    \/ \E payload \in Payloads : ForeignNotify(payload)
    \/ \E p \in Procs, t \in Tasks : Dispatch(p, t)
    \/ \E p \in Procs, t \in Tasks, uuid \in Uuids : RunCompletes(p, t, uuid)
    \/ \E p \in Procs : Crash(p)
    \/ LookupReport

SpecBus == InitBus /\ [][NextBus]_vars

(***************************************************************************)
(* Store::run_migrations: the pending migrations run between                *)
(* pg_advisory_lock(1) and pg_advisory_unlock(1) on one connection.        *)
(***************************************************************************)
\* The migrations of the schema.
MaxMigrations == 2

\* pg_advisory_lock returns when no other session holds the lock.
LockFree(lock) == TRUE
CanLock(lock) == lock = {}

\* Store::new calls run_migrations, which takes a connection and asks for the
\* lock.
RunMigrations(p) ==
    /\ mig.pc[p] = "start"
    /\ mig' = [mig EXCEPT !.pc[p] = "waiting"]
    /\ UNCHANGED <<pois, clock, tx, ret, round, bis, job, reports, chan>>

\* select pg_advisory_lock(1) returns.
AdvisoryLock(p) ==
    /\ mig.pc[p] = "waiting"
    /\ CanLock(mig.lock)
    /\ mig' = [mig EXCEPT !.pc[p] = "locked", !.lock = {p}]
    /\ UNCHANGED <<pois, clock, tx, ret, round, bis, job, reports, chan>>

\* run_pending_migrations starts the next pending migration.
BeginMigration(p) ==
    /\ mig.pc[p] = "locked"
    /\ mig.version < MaxMigrations
    /\ mig' = [mig EXCEPT !.pc[p] = "migrating"]
    /\ UNCHANGED <<pois, clock, tx, ret, round, bis, job, reports, chan>>

\* The migration is applied, or it fails: run_migrations returns the error
\* without unlocking.
EndMigration(p, ok) ==
    /\ mig.pc[p] = "migrating"
    /\ mig' = IF ok
              THEN [mig EXCEPT !.pc[p] = "locked", !.version = @ + 1]
              ELSE [mig EXCEPT !.pc[p] = "failed"]
    /\ UNCHANGED <<pois, clock, tx, ret, round, bis, job, reports, chan>>

\* Nothing is pending: select pg_advisory_unlock(1), and Store::new returns
\* the store.
AdvisoryUnlock(p) ==
    /\ mig.pc[p] = "locked"
    /\ mig.version = MaxMigrations
    /\ mig' = [mig EXCEPT !.pc[p] = "done", !.lock = {}]
    /\ UNCHANGED <<pois, clock, tx, ret, round, bis, job, reports, chan>>

\* The locks left when the session of p ends: the database releases the
\* advisory locks of a session with its connection.
StillHeld(lock, p) == lock
SessionEnd(lock, p) == lock \ {p}

\* Store::new has returned the error: the store and its pool are dropped, the
\* connection closes and the database releases the lock of its session.
StoreDropped(p) ==
    /\ mig.pc[p] = "failed"
    /\ mig' = [mig EXCEPT !.pc[p] = "exited", !.lock = SessionEnd(@, p)]
    /\ UNCHANGED <<pois, clock, tx, ret, round, bis, job, reports, chan>>

\* The process is started again.
Restart(p) ==
    /\ mig.pc[p] = "exited"
    /\ mig' = [mig EXCEPT !.pc[p] = "start"]
    /\ UNCHANGED <<pois, clock, tx, ret, round, bis, job, reports, chan>>

InitMigrations ==
    /\ pois = {}
    /\ clock = 0
    /\ tx = [w \in Writers |-> NoTx]
    /\ ret = NoRet
    /\ round = NoRound
    /\ bis = NoBisect
    /\ InitAux

NextMigrations ==
    \/ \E p \in Starters : RunMigrations(p)
    \/ \E p \in Starters : AdvisoryLock(p)
    \/ \E p \in Starters : BeginMigration(p)
    \/ \E p \in Starters, ok \in BOOLEAN : EndMigration(p, ok)
    \/ \E p \in Starters : AdvisoryUnlock(p)
    \/ \E p \in Starters : StoreDropped(p)
    \/ \E p \in Starters : Restart(p)

SpecMigrations == InitMigrations /\ [][NextMigrations]_vars

\* Every call of Store::new runs on: a statement that can return returns, a
\* migration ends one way or the other, the error is returned and the store
\* dropped.  The database grants the lock to the sessions queued for it, so a
\* session that finds the lock free again and again gets it.
FairMigrations ==
    \A p \in Starters :
        /\ SF_vars(AdvisoryLock(p))
        /\ WF_vars(BeginMigration(p))
        /\ WF_vars(\E ok \in BOOLEAN : EndMigration(p, ok))
        /\ WF_vars(AdvisoryUnlock(p))
        /\ WF_vars(StoreDropped(p))

SpecMigrationsFair == SpecMigrations /\ FairMigrations

(***************************************************************************)
(* QueryRoot::poi_agreement_ratios: the live PoIs of one indexer, then the *)
(* live PoIs of their deployments, then one ratio per PoI of the indexer.  *)
(***************************************************************************)
\* The indexers that serve the deployments analysed.
MaxAnalyzed == 3
Analyzed == 1..MaxAnalyzed
\* The writes that commit while one call of the analyzer is in progress.
MaxConcurrent == 1

\* The PoI of indexer i for deployment d at block b.
PoiAt(i, d, b, digest) ==
    [indexer |-> i, deployment |-> d, block |-> b, poi |-> digest]
Block10 == [number |-> 10, hash |-> "h10"]
Block11 == [number |-> 11, hash |-> "h11"]

\* The tables the analyzer finds: every (indexer, deployment) has no PoI or
\* one live PoI, written at block 10.
LiveTables ==
    {{[NewPoI(PoiAt(k[1], k[2], Block10, f[k]), 0) EXCEPT !.live = TRUE] :
          k \in {x \in Analyzed \X Deployments : f[x] # "none"}} :
        f \in [Analyzed \X Deployments -> Digests \cup {"none"}]}

\* The PoIs written meanwhile.
WrittenPois ==
    {PoiAt(i, d, b, digest) :
        i \in Analyzed, d \in Deployments, b \in {Block10, Block11},
        digest \in Digests}

\* BTreeMap<PoiBytes, u32>: the number of PoIs of the deployment per digest.
poi_counts(deployment_pois) ==
    [h \in {r.poi : r \in deployment_pois} |->
        Cardinality({r \in deployment_pois : r.poi = h})]

\* The order of the keys of the map.
HashRank(h) == IF h = "aa" THEN 1 ELSE 2

\* Iterator::max_by_key over the map in key order: the last of the entries
\* with the greatest count.
max_by_key(counts) ==
    CHOOSE h \in DOMAIN counts :
        \A g \in DOMAIN counts \ {h} :
            counts[g] < counts[h] \/ (counts[g] = counts[h] /\ HashRank(g) < HashRank(h))

\* has_consensus = max_poi_count > total_indexers / 2.
HalfOrMore(max_poi_count, total_indexers) == 2 * max_poi_count >= total_indexers
StrictMajority(max_poi_count, total_indexers) == max_poi_count > total_indexers \div 2

\* deployment_to_pois.get(cid): the PoIs of the second read of that
\* deployment.
DeploymentPois(all, d) == {all[k] : k \in {n \in DOMAIN all : all[n].deployment = d}}

\* The body of the loop for one PoI of the indexer: its ratio, or the error
\* that ends the call.
PoiAgreementRatio(poi, all) ==
    LET deployment_pois == DeploymentPois(all, poi.deployment)
        total_indexers == Cardinality(deployment_pois)
        counts == poi_counts(deployment_pois)
        max_poi == max_by_key(counts)
        has_consensus == StrictMajority(counts[max_poi], total_indexers)
    IN  IF deployment_pois = {}
        THEN [error |-> "no pois for deployment"]
        ELSE IF poi.poi \notin DOMAIN counts
        THEN [error |-> "no matching poi"]
        ELSE [error |-> "none",
              poi |-> poi,
              total_indexers |-> total_indexers,
              n_agreeing_indexers |-> counts[poi.poi],
              n_disagreeing_indexers |-> total_indexers - counts[poi.poi],
              has_consensus |-> has_consensus,
              in_consensus |-> has_consensus /\ max_poi = poi.poi]

\* A loop that leaves out the PoIs whose ratio fails.
SkipFailed(indexer_pois, all) ==
    LET ok == {k \in DOMAIN indexer_pois :
                  PoiAgreementRatio(indexer_pois[k], all).error = "none"}
    IN  [result |-> "ok",
         ratios |-> [n \in 1..Cardinality(ok) |->
                        PoiAgreementRatio(
                            indexer_pois[CHOOSE k \in ok :
                                Cardinality({m \in ok : m <= k}) = n], all)]]
\* The loop: the ratios in the order of the indexer's PoIs, or the first error.
AgreementRatios(indexer_pois, all) ==
    LET ratios == [k \in DOMAIN indexer_pois |-> PoiAgreementRatio(indexer_pois[k], all)]
        failed == {k \in DOMAIN ratios : ratios[k].error # "none"}
    IN  IF failed = {}
        THEN [result |-> "ok", ratios |-> ratios]
        ELSE [result |-> "error", ratios |-> <<>>,
              error |-> ratios[CHOOSE k \in failed : \A n \in failed : k <= n].error]

\* The call starts: live_pois(ctx, indexer_address), the first read.
AgreementCall(indexer_address) ==
    /\ job.pc = "idle"
    /\ job' = [pc |-> "read", indexer_address |-> indexer_address,
               indexer_pois |->
                   diesel_queries_pois(pois, {indexer_address}, {}, {}, {}, TRUE)]
    /\ UNCHANGED <<pois, clock, tx, ret, round, bis, reports, chan, mig>>

\* store.live_pois(None, Some(&deployment_cids), None, None), the second
\* read, then the loop, and the call returns.
AgreementReturn ==
    /\ job.pc = "read"
    /\ LET deployment_cids == {job.indexer_pois[k].deployment : k \in DOMAIN job.indexer_pois}
           all_deployment_pois ==
               diesel_queries_pois(pois, {}, {deployment_cids}, {}, {}, TRUE)
           out == AgreementRatios(job.indexer_pois, all_deployment_pois)
       IN  job' = [pc |-> "done", indexer_address |-> job.indexer_address,
                   indexer_pois |-> job.indexer_pois,
                   all_deployment_pois |-> all_deployment_pois,
                   writes |-> clock, out |-> out]
    /\ UNCHANGED <<pois, clock, tx, ret, round, bis, reports, chan, mig>>

\* Meanwhile a polling round calls write_pois([p], Live).
ConcurrentWrite(p) ==
    /\ job.pc = "read"
    /\ clock < MaxConcurrent
    /\ TxBegin("w1", <<p>>, Live)
    /\ UNCHANGED <<round, bis, aux>>
ConcurrentInsert == TxInsert("w1") /\ UNCHANGED <<round, bis, aux>>
ConcurrentClearLive == TxClearLive("w1") /\ UNCHANGED <<round, bis, aux>>
ConcurrentSetLive == TxSetLive("w1") /\ UNCHANGED <<round, bis, aux>>
ConcurrentCommit == TxCommit("w1") /\ UNCHANGED <<round, bis, aux>>

InitAgreement ==
    /\ InitAux
    /\ pois \in LiveTables
    /\ clock = 0
    /\ tx = [w \in Writers |-> NoTx]
    /\ ret = NoRet
    /\ round = NoRound
    /\ bis = NoBisect

NextAgreement ==
    \/ \E indexer_address \in Analyzed : AgreementCall(indexer_address)
    \/ AgreementReturn
    \/ \E p \in WrittenPois : ConcurrentWrite(p)
    \/ ConcurrentInsert
    \/ ConcurrentClearLive
    \/ ConcurrentSetLive
    \/ ConcurrentCommit

SpecAgreement == InitAgreement /\ [][NextAgreement]_vars

(***************************************************************************)
(* RealIndexer::entity_changes: the response's updates and deletions are   *)
(* collected into one map per kind, keyed by entity type.                  *)
(***************************************************************************)
MaxPerKind == 2
EntityTypes == {"Pair", "Token"}
Entities == {"e1", "e2"}
TypeChanges == [type_ : EntityTypes, entities : Entities]
Responses == UNION {[1..n -> TypeChanges] : n \in 0..MaxPerKind}
EmptyMap == [k \in {} |-> "e1"]

\* HashMap::insert: the map with the key set, and the value the key had
\* before, None when the key is new.
HashMapInsert(m, k, v) ==
    [map |-> [x \in DOMAIN m \cup {k} |-> IF x = k THEN v ELSE m[x]],
     old |-> IF k \in DOMAIN m THEN {m[k]} ELSE {}]

\* Option::ok_or_else(|| anyhow!("duplicate entity types")).
ok_or_else(old) == old # {}

\* One of the two loops: `insert(..).ok_or_else(..)?` for each item in turn.
RECURSIVE Collect(_, _, _)
Collect(items, i, m) ==
    IF i > Len(items) THEN [ok |-> TRUE, map |-> m]
    ELSE LET r == HashMapInsert(m, items[i].type_, items[i].entities)
         IN  IF ok_or_else(r.old) THEN Collect(items, i + 1, r.map)
             ELSE [ok |-> FALSE, error |-> "duplicate entity types"]

entity_changes(updates, deletions) ==
    LET u == Collect(updates, 1, EmptyMap)
    IN  IF ~u.ok THEN u
        ELSE LET d == Collect(deletions, 1, EmptyMap)
             IN  IF ~d.ok THEN d
                 ELSE [ok |-> TRUE, updates |-> u.map, deletions |-> d.map]

EntityChangesCall ==
    /\ job.pc = "response"
    /\ job' = [pc |-> "done", updates |-> job.updates, deletions |-> job.deletions,
               out |-> entity_changes(job.updates, job.deletions)]
    /\ UNCHANGED <<pois, clock, tx, ret, round, bis, reports, chan, mig>>

InitEntityChanges ==
    /\ pois = {} /\ clock = 0 /\ tx = NoTx /\ ret = NoRet
    /\ round = NoRound /\ bis = NoBisect
    /\ reports = {} /\ chan = NoChan /\ mig = NoMig
    /\ \E u \in Responses, d \in Responses :
           job = [pc |-> "response", updates |-> u, deletions |-> d]

NextEntityChanges == EntityChangesCall

SpecEntityChanges == InitEntityChanges /\ [][NextEntityChanges]_vars

(***************************************************************************)
(* Properties of the store.                                                *)
(***************************************************************************)
LiveRows(pr) == {r \in pois : Pair(r) = pr /\ r.live}
Stored(k) == {r \in pois : Key(r) = k}
Returned(op, result) == ret.op = op /\ ret.result = result

\* C1: after any sequence of write_pois calls, Live and NotLive, from
\* concurrent callers, every (indexer, deployment) pair has at most one
\* stored PoI with live = true.
AtMostOneLive ==
    \A r1, r2 \in pois : Pair(r1) = Pair(r2) /\ r1.live /\ r2.live => r1 = r2

\* Two writes ran concurrently (the one that began first returned after the
\* other had committed), one Live and one NotLive, and a pair holds a live row
\* next to a row that is not live.
AtMostOneLiveWitness ==
    /\ Returned("write_pois", "ok")
    /\ \E r1, r2 \in pois :
          /\ Pair(r1) = Pair(r2) /\ r1.live /\ ~r2.live
          /\ ret.now \in {r1.created_at, r2.created_at}
          /\ ret.now < r1.created_at \/ ret.now < r2.created_at

\* C2: after write_pois(batch, Live) commits, every (indexer, deployment) pair
\* of the batch has exactly one stored PoI with live = true, whatever the batch
\* and the store before (a PoI stored already, several blocks of one pair).
ExactlyOneLiveAfterLiveWrite ==
    Returned("write_pois", "ok") /\ ret.live = Live =>
        \A pr \in Touched(ret.pois) : Cardinality(LiveRows(pr)) = 1

\* C4: no two stored PoIs share (indexer, deployment, block), after any
\* sequence of writes, concurrent writes of the same PoI included.
UniquePoIs ==
    \A r1, r2 \in pois : Key(r1) = Key(r2) => r1 = r2

\* Two writes of the same PoI ran concurrently: the one that returned Ok found
\* the PoI stored by a write that had begun after it.
UniquePoIsWitness ==
    /\ Returned("write_pois", "ok")
    /\ \E p \in Range(ret.pois), r \in pois :
          Key(r) = Key(p) /\ Key(p) \notin ret.new /\ ret.now < r.created_at

\* C5: a stored PoI keeps its digest and its creation time in every step, and
\* a write that meets a PoI stored already does not fail on the unique key:
\* the insert is ignored, also when the new digest differs.
StoredPoINeverMutated ==
    [][/\ \A r \in pois : \E r2 \in pois' :
              Key(r2) = Key(r) /\ r2.poi = r.poi /\ r2.created_at = r.created_at
       /\ ret'.op = "write_pois" => ret'.error # "unique_poi"]_vars

\* A write returned Ok that carried another digest for a PoI stored earlier.
StoredPoINeverMutatedWitness ==
    /\ Returned("write_pois", "ok")
    /\ \E p \in Range(ret.pois), r \in pois :
          Key(r) = Key(p) /\ r.poi # p.poi /\ r.created_at < ret.now

\* C6: write_pois is atomic per batch: the committed table changes only in the
\* step in which a write returns Ok, and then to the store after the whole
\* batch (every PoI of the batch stored, the rows a Live write inserted live);
\* a write that fails has changed no row and no live flag.
AtomicPerBatch ==
    [][pois' # pois =>
          /\ ret'.op = "write_pois" /\ ret'.result = "ok"
          /\ pois' = Apply(pois, tx[ret'.writer].w)
          /\ \A p \in Range(ret'.pois) : \E r \in pois' : Key(r) = Key(p)
          /\ ret'.live = Live =>
                \A k \in ret'.new : \E r \in pois' : Key(r) = k /\ r.live]_vars

\* A write failed after it had inserted rows, and none of them is stored.
AtomicPerBatchWitness ==
    /\ Returned("write_pois", "err")
    /\ ret.new # {}
    /\ \A k \in ret.new : Stored(k) = {}

Deployed(batch) == {p.deployment : p \in Range(batch)}
Same(row, p) ==
    /\ row.indexer = p.indexer /\ row.deployment = p.deployment
    /\ row.block.number = p.block.number /\ row.block.hash = p.block.hash
    /\ row.poi = p.poi
Triples(ps) == {<<p.deployment, p.indexer, p.poi>> : p \in ps}
\* pois(deployments = B.deployments) right after write_pois(B) returned Ok.
ReadBack ==
    /\ ret.op = "pois" /\ ret.after.result = "ok"
    /\ ret.sg_deployments = Deployed(ret.after.pois)
    /\ ret.block_range = {} /\ ret.limit = {}

\* C7 as stated: the query that follows write_pois(B) returns, for each PoI of
\* B, a row equal to it on (indexer, deployment, block number, block hash,
\* digest).
RoundTripEveryPoI ==
    ReadBack =>
        \A p \in Range(ret.after.pois) : \E row \in Range(ret.rows) : Same(row, p)

\* C7: the query that follows write_pois(B) returns, for each PoI of B, a row
\* with its (indexer, deployment, block); the row has the PoI's digest if the
\* write inserted it, as the first PoI of its key in B. When the store holds
\* nothing but what the write inserted and B has one PoI per key, the rows read
\* and the PoIs written are equal as sets of (deployment, indexer, digest).
RoundTrip ==
    ReadBack =>
        LET B == ret.after.pois
        IN  /\ \A n \in DOMAIN B : \E row \in Range(ret.rows) :
                  /\ Key(row) = Key(B[n])
                  /\ (/\ Key(B[n]) \in ret.after.new
                      /\ \A m \in 1..(n - 1) : Key(B[m]) # Key(B[n]))
                     => Same(row, B[n])
            /\ (/\ {Key(r) : r \in pois} = ret.after.new
                /\ \A m, n \in DOMAIN B : Key(B[m]) = Key(B[n]) => m = n)
               => Triples(Range(ret.rows)) = Triples(Range(B))

\* A batch of two PoIs or more, with one PoI per key, was written to an empty
\* store and read back.
RoundTripWitness ==
    /\ ReadBack
    /\ Len(ret.after.pois) >= 2
    /\ {Key(r) : r \in pois} = ret.after.new
    /\ \A m, n \in DOMAIN ret.after.pois :
          Key(ret.after.pois[m]) = Key(ret.after.pois[n]) => m = n

(***************************************************************************)
(* Properties of the polling rounds.                                       *)
(***************************************************************************)
\* C3: the live PoI of a pair is the one written by the most recent Live
\* write that touched it: when the last round wrote the pair at a higher block
\* than the round before it (block 10, then block 11), the only live row of
\* the pair is the one the last round wrote.
LiveIsMostRecentlyWritten ==
    \A p \in Range(round.last) :
        (\E q \in Range(round.prev) :
            Pair(q) = Pair(p) /\ q.block.number < p.block.number)
        => LiveRows(Pair(p)) # {} /\ LiveRows(Pair(p)) = Stored(Key(p))

\* C8: after every polling round (here: when the round's write has returned
\* Ok) a live PoI exists for (indexer, deployment) only if the indexer
\* reported the deployment in the round's indexing statuses.
LiveOnlyIfReported ==
    round.pc = "idle" /\ Returned("write_pois", "ok") /\ ret.writer = Poller =>
        \A r \in pois : r.live =>
            \E s \in round.indexing_statuses :
                s.indexer = r.indexer /\ s.deployment = r.deployment

(***************************************************************************)
(* Properties of the bisection.                                            *)
(***************************************************************************)
\* The first block at which the streams differ.
FirstDivergence(differ) == CHOOSE k \in differ : \A j \in differ : k <= j

\* C9: for two PoI streams over blocks 1..N that are equal below block k and
\* differ at k (any k in 1..N), a run started at block N that ends Confirmed
\* ends in Confirmed(k), and the report names block k with both indexers'
\* PoIs at k.
BisectionFindsFirstDivergence ==
    bis.state = "Confirmed" =>
        /\ bis.block = FirstDivergence(bis.differ)
        /\ bis.poi1 = StreamA(bis.differ, FirstDivergence(bis.differ))
        /\ bis.poi2 = StreamB(bis.differ, FirstDivergence(bis.differ))

\* C10: every run reaches Confirmed or Failed, whatever the probes answer:
\* each step that narrows the range shrinks hi - lo by at least one, and at
\* most hi - lo (of the run's range) Incomplete steps are tolerated.
BisectionTerminates ==
    /\ [][bis.state = "Probe" /\ bis'.state = "Probe"
              /\ bis'.incompletes = bis.incompletes
          => bis'.hi - bis'.lo <= bis.hi - bis.lo - 1]_vars
    /\ [](bis.state \in {"Probe", "Confirmed", "Failed"} =>
             bis.incompletes <= bis.tolerance /\ bis.tolerance = bis.n - 1)
    /\ <>(bis.state \in {"Confirmed", "Failed"})

\* A run ended Confirmed after an Incomplete step and two narrowing steps.
BisectionTerminatesWitness ==
    bis.state = "Confirmed" /\ bis.incompletes >= 1 /\ bis.narrowed >= 2

\* The least e with 2^e >= n.
RECURSIVE CeilLog2(_)
CeilLog2(n) == IF n <= 1 THEN 0 ELSE 1 + CeilLog2((n + 1) \div 2)

\* C11: a run with no Incomplete step over blocks 1..N makes at most
\* ceil(log2 N) probes before it confirms; for N = 10 with the first
\* divergence at block 7 it makes at most 4 probes and reports block 7.
ProbesWithinLog ==
    bis.state = "Confirmed" /\ bis.incompletes = 0 =>
        /\ bis.narrowed <= CeilLog2(bis.n)
        /\ bis.n = 10 /\ FirstDivergence(bis.differ) = 7 =>
               bis.narrowed <= 4 /\ bis.block = 7

\* The run over blocks 1..10 with the first divergence at block 7 confirmed
\* block 7 after three probes (at 5, 7 and 6) and no Incomplete step.
ProbesWithinLogWitness ==
    /\ bis.state = "Confirmed" /\ bis.incompletes = 0
    /\ bis.n = 10 /\ FirstDivergence(bis.differ) = 7
    /\ bis.block = 7 /\ bis.narrowed = 3

\* C12: the status of a report becomes Complete only when its run has
\* confirmed a first diverging block, Failed only when the run has ended in a
\* terminal error, and once Complete or Failed it never changes again.
ReportStatusSticky ==
    [][LET before == divergence_investigation_report
           after == divergence_investigation_report'
       IN  /\ before # "Complete" /\ after = "Complete" =>
                  bis.state = "Confirmed" /\ bis.block >= 1
           /\ before # "Failed" /\ after = "Failed" =>
                  bis.state = "Failed" /\ bis.reason # ""
           /\ before \in {"Complete", "Failed"} => after = before]_vars

\* A report is read as Complete after a run with probes.
ReportStatusStickyWitness ==
    /\ bis.state = "Confirmed" /\ bis.narrowed >= 1
    /\ divergence_investigation_report = "Complete"

(***************************************************************************)
(* Properties of the polling round.                                        *)
(***************************************************************************)
\* The input indexers whose indexing_statuses call succeeded, and what a set
\* of them reported.
Succeeded == {i \in round.indexers : round.responses.indexing_statuses[i].ok}
StatusesOf(I) ==
    UNION {Range(round.responses.indexing_statuses[i].statuses) : i \in I}
StatusesReturned == round.pc \in {"pois", "done"}
Answers(i, d) == d \in round.responses.proofs_of_indexing[i].ok

\* C13: whichever k of the n indexers fail indexing_statuses,
\* query_indexing_statuses returns exactly the statuses of the n - k that
\* succeeded, each once, and the round (default policy) ends with a PoI of
\* every succeeded indexer for every deployment it reported and answered.
FanOutResilient ==
    /\ StatusesReturned =>
          /\ Range(round.indexing_statuses) = StatusesOf(Succeeded)
          /\ Len(round.indexing_statuses) = Cardinality(StatusesOf(Succeeded))
          /\ round.query_failures = Cardinality(round.indexers \ Succeeded)
    /\ round.pc = "done" /\ round.block_choice_policy = "CommonTip" =>
          \A i \in Succeeded : \A s \in StatusesOf({i}) :
              Answers(i, s.deployment) =>
                  \E k \in DOMAIN round.pois :
                      /\ round.pois[k].indexer = i
                      /\ round.pois[k].deployment = s.deployment

\* One of two indexers failed after the other had answered, and the round
\* ended with PoIs of the other.
FanOutResilientWitness ==
    /\ round.pc = "done"
    /\ round.indexers = {1, 2} /\ Succeeded = {1}
    /\ round.query_failures = 1
    /\ round.pois # <<>>

RECURSIVE Sum(_, _)
Sum(f, S) ==
    IF S = {} THEN 0
    ELSE LET x == CHOOSE y \in S : TRUE IN f[x] + Sum(f, S \ {x})

\* C14: in one call of query_indexing_statuses every input indexer
\* increments exactly one outcome counter, once: label "1" if its call
\* succeeded, "0" if it failed; the increments sum to the number of indexers.
OneOutcomeCounterEach ==
    /\ \A i \in Indexers :
          LET ok == round.indexing_statuses_requests[<<i, "1">>]
              failed == round.indexing_statuses_requests[<<i, "0">>]
              answered == i \in round.indexers \ round.pending
          IN  /\ ~answered => ok = 0 /\ failed = 0
              /\ answered /\ i \in Succeeded => ok = 1 /\ failed = 0
              /\ answered /\ i \notin Succeeded => ok = 0 /\ failed = 1
    /\ round.pending = {} =>
          /\ Sum(round.indexing_statuses_requests, Labels)
                 = Cardinality(round.indexers)
          /\ round.query_successes + round.query_failures
                 = Cardinality(round.indexers)

\* Indexer 2 failed, indexer 1 succeeded, both are counted.
OneOutcomeCounterEachWitness ==
    /\ round.indexers = {1, 2} /\ round.pending = {}
    /\ Succeeded = {1}
    /\ round.indexing_statuses_requests[<<2, "0">>] = 1
    /\ round.indexing_statuses_requests[<<1, "1">>] = 1

\* What the round returns as a function of the input and of the indexers'
\* responses alone.
ExpectedPois ==
    {public_proof_of_indexing(i, request) :
        i \in Succeeded,
        request \in UNION {PoiRequest(round.block_choice_policy,
                                      StatusesOf(Succeeded), j) :
                           j \in Succeeded}} \cap
    {p \in [indexer : Indexers, deployment : Deployments,
            block : [number : LatestBlocks], poi : {"aa"}] :
        /\ Answers(p.indexer, p.deployment)
        /\ [deployment |-> p.deployment, block_number |-> p.block.number]
              \in PoiRequest(round.block_choice_policy, StatusesOf(Succeeded),
                             p.indexer)}

\* C15: whatever the order in which the calls to the indexers complete, the
\* set of statuses and the set of PoIs a round returns are those determined
\* by the input and the indexers' responses.
CompletionOrderNotObservable ==
    round.pc = "done" =>
        /\ Range(round.indexing_statuses) = StatusesOf(Succeeded)
        /\ Range(round.pois) = ExpectedPois

\* The statuses of indexer 2 came in first, the PoIs of indexer 1 came in
\* first.
CompletionOrderNotObservableWitness ==
    /\ round.pc = "done"
    /\ Len(round.indexing_statuses) >= 2
    /\ round.indexing_statuses[1].indexer = 2
    /\ \E k \in DOMAIN round.indexing_statuses :
          round.indexing_statuses[k].indexer = 1
    /\ Len(round.pois) >= 2
    /\ round.pois[1].indexer = 1
    /\ \E k \in DOMAIN round.pois : round.pois[k].indexer = 2

Target(d) ==
    ChooseBlock(round.block_choice_policy,
                {s \in Range(round.indexing_statuses) : s.deployment = d})
Asked(i, d, b) ==
    /\ i \in round.called
    /\ \E k \in DOMAIN round.poi_requests[i] :
          round.poi_requests[i][k] = [deployment |-> d, block_number |-> b]

\* C16: indexer i is asked for (d, b) exactly when b is the block chosen for
\* d and i has a status for d with latest block number >= b; for a
\* deployment without a chosen block nobody is asked.
AskedExactlyWhenReached ==
    StatusesReturned =>
        \A i \in Indexers, d \in Deployments :
            /\ \A b \in LatestBlocks :
                  Asked(i, d, b) <=>
                      /\ b \in Target(d)
                      /\ \E s \in Range(round.indexing_statuses) :
                            /\ s.indexer = i /\ s.deployment = d
                            /\ s.latest_block.number >= b
            /\ Target(d) = {} =>
                  \A k \in DOMAIN round.poi_requests[i] :
                      round.poi_requests[i][k].deployment # d

\* Under MaxSynced indexer 2 is asked for deployment 1 at block 11 and
\* indexer 1, at block 10, is not asked for deployment 1.
AskedExactlyWhenReachedWitness ==
    /\ StatusesReturned
    /\ round.block_choice_policy = "MaxSynced"
    /\ Asked(2, 1, 11)
    /\ 1 \in round.called
    /\ \E s \in Range(round.indexing_statuses) :
          s.indexer = 1 /\ s.deployment = 1 /\ s.latest_block.number = 10
    /\ ~Asked(1, 1, 10) /\ ~Asked(1, 1, 11)

\* C17: all the PoIs of one deployment produced by a round are for the same
\* block, whatever the indexer.
SameBlockPerDeployment ==
    \A k, l \in DOMAIN round.pois :
        round.pois[k].deployment = round.pois[l].deployment =>
            round.pois[k].block.number = round.pois[l].block.number

\* Two indexers at different latest blocks gave a PoI of deployment 1.
SameBlockPerDeploymentWitness ==
    /\ round.pc = "done"
    /\ \E k, l \in DOMAIN round.pois :
          /\ round.pois[k].indexer = 1 /\ round.pois[l].indexer = 2
          /\ round.pois[k].deployment = 1 /\ round.pois[l].deployment = 1
    /\ \E s, t \in Range(round.indexing_statuses) :
          /\ s.deployment = 1 /\ t.deployment = 1
          /\ s.latest_block.number # t.latest_block.number

\* The policy CommonTip with a threshold num / den: the highest latest block
\* number that enough statuses have reached.
CommonTip(statuses, num, den) ==
    LET needed == (num * Cardinality(statuses) + den - 1) \div den
        reached(n) == Cardinality({s \in statuses : s.latest_block.number >= n})
        numbers == {s.latest_block.number : s \in statuses}
    IN  {n \in numbers :
            /\ reached(n) >= needed
            /\ \A m \in numbers : m > n => reached(m) < needed}
Thresholds == {<<1, 2>>, <<2, 3>>, <<1, 1>>}

RECURSIVE PoisOfCalls(_, _)
PoisOfCalls(i, calls) ==
    IF calls = <<>> THEN <<>>
    ELSE LET call == calls[Len(calls)]
         IN  PoisOfCalls(i, SubSeq(calls, 1, Len(calls) - 1)) \o
             (IF call.ok
              THEN [k \in DOMAIN call.requests |->
                       public_proof_of_indexing(i, call.requests[k])]
              ELSE <<>>)

\* C19: proofs_of_indexing of an indexer holds, and returns, exactly the PoIs
\* of its underlying calls that succeeded, in the order of the calls, none
\* lost to a later failure; and the round returns the PoIs of every indexer.
ProofsOfIndexingKeepsSucceeded ==
    /\ \A i \in Indexers :
          /\ round.gathered[i] = PoisOfCalls(i, round.calls[i])
          /\ i \in round.called \ round.running =>
                Range(round.gathered[i]) \subseteq Range(round.pois)
    /\ round.pc = "done" =>
          /\ Range(round.pois) = UNION {Range(round.gathered[i]) : i \in Indexers}
          /\ Len(round.pois) = Sum([i \in Indexers |-> Len(round.gathered[i])],
                                    Indexers)

\* Indexer 1's second call failed after its first had succeeded; its PoI
\* and a PoI of indexer 2 are returned.
ProofsOfIndexingKeepsSucceededWitness ==
    /\ round.pc = "done"
    /\ Len(round.calls[1]) = 2
    /\ round.calls[1][1].ok /\ ~round.calls[1][2].ok
    /\ Len(round.gathered[1]) = 1
    /\ round.gathered[2] # <<>>

RECURSIVE RequestsOfCalls(_)
RequestsOfCalls(calls) ==
    IF calls = <<>> THEN <<>>
    ELSE RequestsOfCalls(SubSeq(calls, 1, Len(calls) - 1)) \o
         calls[Len(calls)].requests

\* C20: every underlying call carries one request; the calls carry the
\* requests of the input in input order, each once, all of them unless the
\* loop was left for an indexer without publicProofsOfIndexing; each call
\* increments one of the two outcome counters.
OneRequestPerCall ==
    \A i \in Indexers :
        LET calls == round.calls[i]
            sent == RequestsOfCalls(calls)
        IN  /\ \A k \in DOMAIN calls : Len(calls[k].requests) = 1
            /\ Len(sent) <= Len(round.poi_requests[i])
            /\ sent = SubSeq(round.poi_requests[i], 1, Len(sent))
            /\ i \in round.called \ round.running /\ i \notin round.skipped =>
                  sent = round.poi_requests[i]
            /\ i \in round.skipped => ~calls[Len(calls)].ok
            /\ round.public_poi_requests[<<i, "1">>]
                  = Cardinality({k \in DOMAIN calls : calls[k].ok})
            /\ round.public_poi_requests[<<i, "0">>]
                  = Cardinality({k \in DOMAIN calls : ~calls[k].ok})

\* Indexer 1 got two requests, deployment 2 first, in two calls.
OneRequestPerCallWitness ==
    /\ round.pc = "done"
    /\ Len(round.poi_requests[1]) = 2
    /\ round.poi_requests[1][1].deployment = 2
    /\ Len(round.calls[1]) = 2
    /\ round.calls[1][1].requests = <<round.poi_requests[1][1]>>
    /\ round.calls[1][2].requests = <<round.poi_requests[1][2]>>

\* C21: once an underlying call has failed because the indexer does not know
\* publicProofsOfIndexing no further call is made in that
\* proofs_of_indexing, and the PoIs gathered before are returned; after any
\* other error the remaining calls are made.
SkippedWhenUnsupported ==
    /\ [](LET calls == round.calls[Callee]
              returned == Callee \notin round.running
          IN  /\ Callee \in round.skipped <=>
                    calls # <<>> /\ calls[Len(calls)].unsupported
              /\ \A k \in DOMAIN calls : calls[k].unsupported => k = Len(calls)
              /\ returned => round.pois = PoisOfCalls(Callee, calls)
              /\ returned /\ Callee \notin round.skipped =>
                    Len(calls) = Len(round.poi_requests[Callee]))
    /\ [][(Callee \in round.skipped) => (round'.calls[Callee] = round.calls[Callee])]_vars

\* The second of three calls failed as unsupported after the first had given
\* a PoI: the third was not made and the PoI is returned.
SkippedWhenUnsupportedWitness ==
    /\ round.pc = "done"
    /\ Len(round.poi_requests[Callee]) = 3
    /\ Len(round.calls[Callee]) = 2
    /\ round.calls[Callee][1].ok
    /\ round.calls[Callee][2].unsupported
    /\ Len(round.pois) = 1

(***************************************************************************)
(* Properties of the writes with retries.                                  *)
(***************************************************************************)
\* C22: a write that keeps failing is retried after a wait of 1 second and
\* is attempted at most 5 times in total before the error is given up on.
AtMostFiveAttempts ==
    /\ job.pc # "idle" => job.attempts <= 5
    /\ job.pc = "done" /\ job.result = "error" =>
          job.attempts = 5 /\ job.waited = 4 * RetryWait

\* C23: an error that persists after the retries reaches the caller of the
\* write: the write of the chunk does not end as a write that succeeded.
StorageErrorEscapes ==
    job.pc = "done" /\ job.result = "error" => job.output = "error"

(***************************************************************************)
(* Properties of the divergence reports.                                   *)
(***************************************************************************)
RowsOfPair(table, id1, id2) ==
    {r \in table : {r.poi1_id, r.poi2_id} = {id1, id2}}
ReportWritten == ret.op = "write_divergence_bisect_report"

\* C24: whatever the order in which a pair of PoIs is submitted, and however
\* often, the table holds one row for the unordered pair, and every row has
\* poi1_id < poi2_id.
OneRowPerPair ==
    /\ \A r \in reports : r.poi1_id < r.poi2_id
    /\ \A r1, r2 \in reports :
          {r1.poi1_id, r1.poi2_id} = {r2.poi1_id, r2.poi2_id} => r1 = r2
    /\ ReportWritten /\ ret.poi1 # ret.poi2 =>
          Cardinality(RowsOfPair(reports, ret.poi1_id, ret.poi2_id)) = 1

\* A pair is submitted larger id first when its row is already there.
OneRowPerPairWitness ==
    /\ ReportWritten
    /\ ret.poi1_id > ret.poi2_id
    /\ RowsOfPair(ret.before, ret.poi1_id, ret.poi2_id) # {}
    /\ Cardinality(RowsOfPair(reports, ret.poi1_id, ret.poi2_id)) = 1

\* C25: a call with a pair and a diverging block that are stored already
\* succeeds, returns the id of the stored report and changes nothing.
ResubmissionIdempotent ==
    ReportWritten =>
        \A r \in RowsOfPair(ret.before, ret.poi1_id, ret.poi2_id) :
            r.divergence_block_id = ret.divergence_block =>
                /\ ret.result = "ok"
                /\ ret.id = {r.id}
                /\ reports = ret.before

\* C26 (code_bug): every notification is returned by at most one
\* recv_cross_check_report_request call, whatever the tasks and processes that
\* wait.
OneReceiverPerNotification ==
    \A a, b \in chan.returned : a.uuid = b.uuid => a = b

\* C27 (code_bug): no request uuid is run twice by the workers.
RunAtMostOnce ==
    \A a, b \in chan.runs : a.uuid = b.uuid => a = b

\* The notifications that the listener of p has handed to recv calls.
Taken(p) == SubSeq(chan.sessions[p].inbox, 1, chan.sessions[p].taken)
Range2(seq) == {seq[k] : k \in DOMAIN seq}

\* C28: queue_cross_check_report returns a uuid after publishing one message
\* and changes no stored table; a listener holds only messages published
\* after it attached, so a message published to no listener is held by nobody
\* and is returned to nobody who attaches later.
HeldSinceAttached ==
    /\ \A p \in Procs : \A m \in Range2(chan.sessions[p].inbox) :
           m.uuid > chan.sessions[p].since
    /\ ret.op = "queue_cross_check_report" =>
           /\ ret.result = "ok"
           /\ ret.uuid \in 1..chan.published
           /\ chan.log[ret.uuid] = [uuid |-> ret.uuid, payload |-> "json"]
PublishesOne ==
    /\ chan'.published = chan.published + 1
    /\ Len(chan'.log) = Len(chan.log) + 1
    /\ pois' = pois /\ reports' = reports /\ tx' = tx
    /\ chan'.returned = chan.returned /\ chan'.runs = chan.runs
PublishPersistsNothing ==
    [][HeldSinceAttached' /\ (chan'.published # chan.published => PublishesOne)]_vars

\* A message was published while nobody listened, a listener attached later,
\* took a later message, and holds nothing more.
PublishPersistsNothingWitness ==
    \E p \in Procs :
        /\ chan.published = 2
        /\ chan.sessions[p].since = 1
        /\ chan.sessions[p].listening
        /\ chan.sessions[p].taken = 1
        /\ Len(chan.sessions[p].inbox) = 1
        /\ \A call \in chan.returned : call.uuid = 2
        /\ ret.op = "recv_cross_check_report_request"

Holding(p) == mig.pc[p] \in {"locked", "migrating", "failed"}
MigrationsExclusive ==
    [][/\ \A p \in Starters : Holding(p)' => mig'.lock = {p}
       /\ \A p, q \in Starters : Holding(p)' /\ Holding(q)' => p = q
       /\ \A p \in Starters : (mig.pc[p] = "waiting" /\ mig'.pc[p] = "locked") => mig.lock = {}
       /\ mig'.version # mig.version => \E p \in Starters : mig.pc[p] = "migrating" /\ mig.lock = {p}]_vars

\* One process is in a migration while the other, started meanwhile, waits
\* for the lock.
MigrationsExclusiveWitness ==
    \E p, q \in Starters :
        /\ mig.pc[p] = "migrating"
        /\ mig.pc[q] = "waiting"
        /\ mig.version = 1

\* The analyzer has returned its ratios.
Analyzed_ok == job.pc = "done" /\ job.out.result = "ok"
\* The PoIs of deployment d in the analyzer's second read, and those among
\* them with digest h.
Of(d) == DeploymentPois(job.all_deployment_pois, d)
Holders(d, h) == {r \in Of(d) : r.poi = h}
Majority(d, h) == Cardinality(Holders(d, h)) > Cardinality(Of(d)) \div 2

\* C31: has_consensus is true exactly when some digest is held by more than
\* total/2 of the live PoIs of the deployment, and in_consensus exactly for a
\* PoI with that digest; nobody is in consensus without a strict majority.
ConsensusIsStrictMajority ==
    Analyzed_ok =>
        \A k \in DOMAIN job.out.ratios :
            LET r == job.out.ratios[k]
                d == r.poi.deployment
            IN  /\ r.total_indexers = Cardinality(Of(d))
                /\ r.has_consensus <=> \E h \in Digests : Majority(d, h)
                /\ r.in_consensus <=> Majority(d, r.poi.poi)
                /\ r.n_agreeing_indexers = Cardinality(Holders(d, r.poi.poi))

\* The indexer is in the minority of a deployment with a majority of two out
\* of three, and in a deployment with an exact tie.
ConsensusIsStrictMajorityWitness ==
    /\ Analyzed_ok
    /\ \E k \in DOMAIN job.out.ratios :
           LET r == job.out.ratios[k]
           IN  r.total_indexers = 3 /\ r.has_consensus /\ ~r.in_consensus
    /\ \E k \in DOMAIN job.out.ratios :
           LET r == job.out.ratios[k]
           IN  r.total_indexers = 2 /\ r.n_agreeing_indexers = 1 /\ ~r.has_consensus

\* C32: when the deployment of one of the indexer's PoIs has no live PoI the
\* call fails and returns no ratio; no ratio has total 0.
NoRatioWithoutPois ==
    job.pc = "done" =>
        /\ (\E k \in DOMAIN job.indexer_pois : Of(job.indexer_pois[k].deployment) = {})
               => job.out.result = "error" /\ job.out.ratios = <<>>
        /\ \A k \in DOMAIN job.out.ratios : job.out.ratios[k].total_indexers >= 1

\* The call failed because a deployment of the indexer had no live PoI left,
\* while another deployment of the indexer had some.
NoRatioWithoutPoisWitness ==
    /\ job.pc = "done"
    /\ job.out.result = "error"
    /\ job.out.error = "no pois for deployment"
    /\ \E k \in DOMAIN job.indexer_pois : Of(job.indexer_pois[k].deployment) # {}

\* C39 (code_bug): with a write_pois(Live) between its two reads the call
\* still returns, for every PoI of the indexer, a ratio that counts the
\* indexer itself.
RatiosOverConsistentView ==
    job.pc = "done" =>
        /\ job.out.result = "ok"
        /\ \A k \in DOMAIN job.out.ratios :
               LET r == job.out.ratios[k]
               IN  /\ r.n_agreeing_indexers >= 1
                   /\ r.n_agreeing_indexers + r.n_disagreeing_indexers = r.total_indexers

\* C33: polling rounds never overlap: a round starts only when the previous
\* one has finished, its write included, and a tick of the cadence that comes
\* during a round starts no round.
RoundsNeverOverlap ==
    [][/\ round'.n # round.n =>
              /\ round.pc = "idle"
              /\ tx[Poller].pc = "idle"
              /\ round'.n = round.n + 1
              /\ round'.pc = "statuses"
       /\ (round'.due /\ ~round.due) =>
              /\ round.pc # "idle"
              /\ round' = [round EXCEPT !.due = TRUE]
              /\ tx' = tx
       /\ (tx'[Poller].pc # "idle") => round'.pc = "writing"]_vars

\* The cadence has fired while the first round was writing its PoIs.
RoundsNeverOverlapWitness ==
    /\ round.n = 1
    /\ round.due
    /\ round.pc = "writing"
    /\ tx[Poller].pc = "clear"

\* What holds of lo and hi in a Probe state besides their order: they lie in
\* 1..n, the streams differ at hi and agree at lo - 1 (block 0 is before the
\* first block), and the block probed next lies strictly between them.
ProbeBrackets ==
    /\ 1 <= bis.lo
    /\ bis.hi <= bis.n
    /\ StreamA(bis.differ, bis.hi) # StreamB(bis.differ, bis.hi)
    /\ bis.lo > 1 => StreamA(bis.differ, bis.lo - 1) = StreamB(bis.differ, bis.lo - 1)
    /\ Probing => bis.lo < ProbeBlock /\ ProbeBlock < bis.hi

Ended == bis.state \in {"Confirmed", "Failed"}
\* An Incomplete step leaves lo and hi and moves the probe to a neighbour of
\* the failed block strictly between them; the run fails with "gap" only when
\* there is no such neighbour.
IncompleteStep ==
    /\ (bis.state = "Probe" /\ bis'.state = "Probe" /\ bis'.incompletes # bis.incompletes) =>
           /\ bis'.incompletes = bis.incompletes + 1
           /\ bis'.lo = bis.lo /\ bis'.hi = bis.hi
           /\ bis'.mid \in {ProbeBlock - 1, ProbeBlock + 1}
           /\ bis.lo < bis'.mid /\ bis'.mid < bis.hi
    /\ (bis.state = "Probe" /\ bis'.state = "Failed" /\ bis'.reason = "gap") =>
           \A m \in {ProbeBlock - 1, ProbeBlock + 1} : ~(bis.lo < m /\ m < bis.hi)

LiveOf(table) == {r \in table : r.live}

\* C36: a write of PoIs as NotLive, as the bisection run makes for its
\* probes, never changes which PoIs are live: none of its steps, its commit
\* included, changes the set of live rows, also between the steps of writes
\* with liveness Live.
NotLiveKeepsLive ==
    [][\A w \in Writers :
          (tx[w].pc # "idle" /\ tx[w].live = NotLive /\ tx'[w] # tx[w]) =>
              /\ LiveOf(pois') = LiveOf(pois)
              /\ \A r \in pois' \ pois : ~r.live]_vars

\* A NotLive write has committed a new row; a write with liveness Live that
\* began after it has committed before it and its PoI is live.
NotLiveKeepsLiveWitness ==
    /\ ret.op = "write_pois"
    /\ ret.live = NotLive
    /\ ret.result = "ok"
    /\ ret.new # {}
    /\ ret.now = 1
    /\ \E r \in pois : r.live /\ r.created_at = 2

Distinct(items) ==
    \A i, j \in 1..Len(items) : items[i].type_ = items[j].type_ => i = j

\* C40 (code_bug): when the entity types of the updates are pairwise distinct
\* and so are those of the deletions, entity_changes returns Ok with every
\* type's updates and deletions; it fails only when a type occurs twice.
DistinctTypesAreOk ==
    job.pc = "done" /\ "out" \in DOMAIN job =>
        IF Distinct(job.updates) /\ Distinct(job.deletions)
        THEN /\ job.out.ok
             /\ \A i \in 1..Len(job.updates) :
                    job.out.updates[job.updates[i].type_] = job.updates[i].entities
             /\ \A i \in 1..Len(job.deletions) :
                    job.out.deletions[job.deletions[i].type_] = job.deletions[i].entities
        ELSE ~job.out.ok

\* C38 (as stated): run_migrations has released the lock when it returns,
\* with Ok or with the error of a failed migration.
ReleasedOnEveryPath ==
    \A p \in Starters : mig.pc[p] \in {"failed", "done"} => p \notin mig.lock

\* C38 (amended): after a failed migration attempt in one process, another
\* process waiting on the lock eventually acquires it; the lock is released
\* when the store of the failed process is dropped.
WaiterAcquires ==
    \A p, q \in Starters :
        (p # q /\ mig.pc[p] = "failed" /\ mig.pc[q] = "waiting")
            ~> (mig.pc[q] # "waiting")

WaiterAcquiresWitness ==
    \E p, q \in Starters :
        /\ mig.pc[p] = "failed" /\ mig.lock = {p}
        /\ mig.pc[q] = "waiting"

====
